---------------------------- MODULE Spec2Model ----------------------------
(***************************************************************************)
(* Webhook ingestion pipeline of the chat-router: signature verification,  *)
(* platform pre-check, normalization, attachment upload, persistence and   *)
(* AI-job dispatch, for the class-based handlers (handlers/*.py on         *)
(* BaseWebhookHandler) and the flat handlers of webhook_handler.py.        *)
(*                                                                         *)
(* Every invocation is an independent process p that walks the steps of    *)
(* BaseWebhookHandler.handle; the message store, the blob store, the AI    *)
(* queue and the chat-room / bot tables are shared.                        *)
(*                                                                         *)
(* Spec         : every platform, both handler families, one request after *)
(*                the other.                                               *)
(* LiveSpec     : one request of Spec, the invocation running on to its    *)
(*                end.                                                     *)
(* DispatchSpec : CustomWebhookHandler while chat rooms and bots change.   *)
(* ConcSpec     : concurrent custom-UI requests to one chat.               *)
(* AuthSpec     : every platform under every secret and header case.       *)
(* StoreSpec    : storage.save_message called directly.                    *)
(* LineSpec     : the line handlers under payloads of several events.      *)
(* ParseSpec    : the timestamp conversions called directly.               *)
(* SelectSpec   : the model selector called directly.                      *)
(* UploadSpec   : storage.process_binary_data called directly.             *)
(* AiSpec       : the custom-UI handler and the queue consumer.            *)
(* EquivSpec    : one request served by both handler families.             *)
(***************************************************************************)
EXTENDS Integers, Sequences, FiniteSets, TLC

(* ------------------------------ bounds --------------------------------- *)

\* concurrent invocations
NumProcs == 2
\* requests served one after the other by one invocation
MaxRequests == 1
\* largest sender-supplied timestamp (ms); 0 stands for "absent or zero"
MaxTs == 1
\* largest wall-clock reading (ms)
MaxNow == 2
\* direct calls of storage.save_message in StoreSpec
MaxSaves == 2
\* most events in the event list of one line payload
MaxEvents == 2
\* most decimal digits of a timestamp handed to the timestamp parser
MaxDigits == 13
\* most words of a user message handed to the model selector
MaxWords == 2
\* most records of one batch handed to the queue consumer
MaxRecords == 2

Procs == 1..NumProcs

(* ------------------------------ values --------------------------------- *)

Platforms == {"slack", "teams", "line", "custom"}
\* "class": handlers/*.py on BaseWebhookHandler; "flat": webhook_handler.py
Impls == {"class", "flat"}

\* a key that the JSON body does not carry (Python: .get() gives None)
Absent == "<absent>"
\* Python truthiness of an optional string
Falsy(x) == x \in {Absent, ""}
\* Python `a or b`
OrElse(a, b) == IF Falsy(a) THEN b ELSE a

ChatIds == {"c1"}
BotIds == {"b1"}

(* ----------------------------- requests -------------------------------- *)

\* Parsed bodies.  bodyObj = FALSE: the body is no JSON object (lambda_function
\* hands an unparsable body on as a string, an empty one as "").
\*   kind      : slack payload.type / event.type, teams type
\*   events    : the event list of a line payload
\*   timestamp : 0 = absent or zero, else epoch-ms given by the sender
\*   binaryData: Absent, "b64ok" (valid base64) or "b64bad" (undecodable)
BodyDefaults ==
    [ bodyObj |-> TRUE, kind |-> "message", challenge |-> Absent,
      chatId |-> Absent, roomId |-> Absent, senderId |-> Absent, userId |-> Absent,
      text |-> Absent, timestamp |-> 0, binaryData |-> Absent,
      fileExtension |-> Absent, contentType |-> Absent, events |-> <<>> ]

\* an unparsable body: lambda_function hands the raw text on as a str
NonObjectBody == [BodyDefaults EXCEPT !.bodyObj = FALSE, !.kind = Absent]
\* the bodies that are no JSON object: an unparsable body, an empty body
\* (lambda_function hands on "") and a JSON array (the parsed list)
MalformedBodies ==
    { NonObjectBody,
      [BodyDefaults EXCEPT !.bodyObj = FALSE, !.kind = "<empty>"],
      [BodyDefaults EXCEPT !.bodyObj = FALSE, !.kind = "<list>"] }

\* custom-UI posts that name a room or a chat, a sender and a text
CustomMessages ==
    { [BodyDefaults EXCEPT !.chatId = ids[1], !.roomId = ids[2], !.senderId = "u1",
                           !.text = "hi", !.timestamp = ts, !.binaryData = b] :
        ids \in {<<"c1", Absent>>, <<Absent, "r1">>, <<"c1", "r1">>},
        ts \in {0, MaxTs}, b \in {Absent, "b64ok", "b64bad"} }

\* custom-UI posts that lack a required field
CustomIncomplete ==
    { [BodyDefaults EXCEPT !.senderId = "u1", !.text = "hi"],
      [BodyDefaults EXCEPT !.chatId = "c1", !.text = "hi"],
      [BodyDefaults EXCEPT !.chatId = "c1", !.senderId = "u1", !.text = ""] }


\* slack and teams events: a message, or an event of another type
PlatformEvents ==
    { [BodyDefaults EXCEPT !.roomId = "R1", !.senderId = "U1", !.text = "hi",
                           !.timestamp = ts] : ts \in {0, MaxTs} }
    \cup { [BodyDefaults EXCEPT !.kind = "other"] }

\* The source of a line event: its kind (user, group, room) and the ids it
\* carries; Absent for a key the source does not have.
LineSource(type, userId, groupId, roomId) ==
    [type |-> type, userId |-> userId, groupId |-> groupId, roomId |-> roomId]


\* One event of a line payload.
\*   type      : "message", or another event type ("follow")
\*   message   : the message's subtype and, for a text message, its text
\*   timestamp : 0 = absent or zero, else epoch-ms
LineEvent(type, source, messageType, text, timestamp) ==
    [ type |-> type, source |-> source,
      message |-> [type |-> messageType, text |-> text], timestamp |-> timestamp ]

\* a text message of user U1 in the one-to-one chat
LineTextEvent(text, timestamp) ==
    LineEvent("message", LineSource("user", "U1", Absent, Absent), "text", text, timestamp)

\* an event that is no message
LineFollowEvent ==
    LineEvent("follow", LineSource("user", "U1", Absent, Absent), Absent, Absent, MaxTs)

LineBody(events) == [BodyDefaults EXCEPT !.events = events]

\* slack also sends the url_verification challenge; a line payload is one
\* message, or one event of another type
BodiesOf(platform) ==
    LET SlackChallenges ==
            { [BodyDefaults EXCEPT !.kind = "url_verification", !.challenge = ch] :
                ch \in {Absent, "ch1"} }
        LineEvents ==
            { LineBody(<< LineTextEvent("hi", ts) >>) : ts \in {0, MaxTs} }
            \cup { LineBody(<< LineFollowEvent >>) }
    IN MalformedBodies \cup
       (CASE platform = "custom" -> CustomMessages \cup CustomIncomplete
          [] platform = "slack"  -> PlatformEvents \cup SlackChallenges
          [] platform = "line"   -> LineEvents
          [] OTHER               -> PlatformEvents)

\* the bodies sent under each of SigCases
SignedBodiesOf(platform) ==
    CASE platform = "custom" ->
           { [BodyDefaults EXCEPT !.chatId = "c1", !.senderId = "u1", !.text = "hi"] }
      [] platform = "slack" ->
           { [BodyDefaults EXCEPT !.roomId = "R1", !.senderId = "U1", !.text = "hi"],
             [BodyDefaults EXCEPT !.kind = "url_verification", !.challenge = "ch1"] }
      [] platform = "line" -> { LineBody(<< LineTextEvent("hi", 0) >>) }
      [] OTHER ->
           { [BodyDefaults EXCEPT !.roomId = "R1", !.senderId = "U1", !.text = "hi"] }

(* ----------------------- raw bodies and digests ------------------------ *)

\* json.dumps(body): one text per parsed value.  A body that failed to parse is
\* a str and is dumped in quotes.
json_dumps(body) ==
    IF body.bodyObj THEN ToString(body)
    ELSE IF body.kind = "<list>" THEN "[1]"
    ELSE IF body.kind = "<empty>" THEN "\"\""
    ELSE "\"not json\""

\* A sender serializes a body in one of two layouts: "dumps" is the layout of
\* json.dumps; "spaced" is another text of the same value.

\* event["body"]: the text whose parse (lambda_function, json.loads) is body
RawBody(body, form) ==
    IF body.bodyObj THEN json_dumps(body) \o (IF form = "spaced" THEN "\n" ELSE "")
    ELSE IF body.kind = "<list>" THEN (IF form = "spaced" THEN "[ 1 ]" ELSE "[1]")
    ELSE IF body.kind = "<empty>" THEN ""
    ELSE "not json"

\* hmac.new(key, data, sha256) as a term: two digests are equal exactly when
\* their keys and their data are
HmacSha256(key, data) == "hmac(" \o key \o "," \o data \o ")"

\* BaseWebhookHandler._hmac_sha256: the hex digest
hmac_sha256(key, data) == "hex:" \o HmacSha256(key, data)

\* BaseWebhookHandler._hmac_sha256_b64: the base64 digest
hmac_sha256_b64(key, data) == "b64:" \o HmacSha256(key, data)

\* The handler's secret and the request's authentication headers.
\*   secret : the platform's signing secret, "" when none is configured
\*   hdr    : the header the platform's check reads (x-slack-signature,
\*            x-line-signature, x-custom-signature, authorization), "" when the
\*            request has none
\*   tsHdr  : x-slack-request-timestamp, "" when the request has none
Unsigned == [secret |-> "", hdr |-> "", tsHdr |-> ""]

\* What a sender that holds key puts in the header for the raw body it sends:
\* the platform's documented signature; for teams a bearer token.
SignatureOf(platform, key, ts, raw) ==
    CASE platform = "slack"  -> "v0=" \o hmac_sha256(key, "v0:" \o ts \o ":" \o raw)
      [] platform = "line"   -> hmac_sha256_b64(key, raw)
      [] platform = "custom" -> hmac_sha256(key, raw)
      [] platform = "teams"  -> "Bearer " \o key

\* The header cases of Requests for a request with raw body raw: no secret and a
\* header that is no signature; a secret and no header, a header that is no
\* signature, and the sender's signature.
SigCases(platform, raw) ==
    { [secret |-> "",   hdr |-> "junk", tsHdr |-> "100"],
      [secret |-> "s1", hdr |-> "",     tsHdr |-> "100"],
      [secret |-> "s1", hdr |-> "junk", tsHdr |-> "100"],
      [secret |-> "s1", hdr |-> SignatureOf(platform, "s1", "100", raw), tsHdr |-> "100"] }

\* The path on which the gateway receives the webhooks of a platform.
WebhookPath(platform) == "/webhook/" \o platform

\* Paths that are none of the four webhook paths.
UnknownPaths == {"/webhook/unknown", "/webhook/slack/"}


\* A request to the handler of platform pl in handler family im.
\*   platform : the handler that serves the request; a class-based handler is
\*              invoked as such, handle_webhook_request picks the flat handler
\*              by the path ("none" until then)
\*   raw, body: event["body"] and its parse
Request(pl, im, sg, b, form) ==
    [ platform |-> IF im = "class" THEN pl ELSE "none", impl |-> im,
      method |-> "POST", path |-> WebhookPath(pl),
      sig |-> sg, raw |-> RawBody(b, form), body |-> b ]

\* Requests that handle_webhook_request is to turn away: another method on any
\* path, and POST on an unknown path.  The body is a complete custom-UI message.
RoutingRequests ==
    LET r == Request("custom", "flat", Unsigned,
                     [BodyDefaults EXCEPT !.chatId = "c1", !.senderId = "u1",
                                          !.text = "hi", !.timestamp = MaxTs],
                     "dumps")
    IN { [r EXCEPT !.method = m, !.path = pa] :
           m \in {"GET", "PUT", "DELETE"},
           pa \in {WebhookPath(pl) : pl \in Platforms} \cup UnknownPaths }
       \cup { [r EXCEPT !.path = pa] : pa \in UnknownPaths }

Requests ==
    UNION { { Request(pl, im, Unsigned, b, "dumps") :
                im \in Impls, b \in BodiesOf(pl) }
            \cup
            UNION { { Request(pl, im, sg, b, "dumps") :
                        im \in Impls, sg \in SigCases(pl, RawBody(b, "dumps")) } :
                    b \in SignedBodiesOf(pl) } :
            pl \in Platforms }
    \cup RoutingRequests

\* A message event of the platform, and the same event with another text.
PlatformMessage(platform, text) ==
    IF platform = "custom"
    THEN [BodyDefaults EXCEPT !.chatId = "c1", !.senderId = "u1", !.text = text]
    ELSE IF platform = "line" THEN LineBody(<< LineTextEvent(text, 0) >>)
    ELSE [BodyDefaults EXCEPT !.roomId = "R1", !.senderId = "U1", !.text = text]

\* The signature and authorization headers a request with body b, serialized in
\* layout form, arrives with.  The sender's key is "s1" and its timestamp "100".
\* For the MAC platforms: none; no signature at all; the signature of the raw
\* body; that signature under another key, for another body, for another
\* timestamp, and over the re-serialized body; for slack also the bare digest
\* without the "v0=" prefix and the signature for an empty timestamp.
AuthHeaders(platform, b, form) ==
    LET raw == RawBody(b, form)
    IN IF platform = "teams"
       THEN {"", "Bearer tok1", "Bearer tok2", "Bearer ", "Bearer", "bearer tok1",
             "Basic tok1"}
       ELSE {"", "junk",
             SignatureOf(platform, "s1", "100", raw),
             SignatureOf(platform, "s2", "100", raw),
             SignatureOf(platform, "s1", "100",
                         RawBody(PlatformMessage(platform, "yo"), form)),
             SignatureOf(platform, "s1", "200", raw),
             SignatureOf(platform, "s1", "100", json_dumps(b))}
            \cup (IF platform = "slack"
                  THEN {hmac_sha256("s1", "v0:" \o "100" \o ":" \o raw),
                        SignatureOf(platform, "s1", "", raw)}
                  ELSE {})

AuthSigs(platform, b, form) ==
    { [secret |-> k, hdr |-> h, tsHdr |-> t] :
        k \in (IF platform = "teams" THEN {"", "s1", "s2"} ELSE {"", "s1"}),
        h \in AuthHeaders(platform, b, form),
        t \in (IF platform = "slack" THEN {"", "100"} ELSE {""}) }

\* The requests of AuthSpec: a message and an unparsable body per platform,
\* under every header case.
AuthRequestsOf(platform, b) ==
    UNION { { Request(platform, im, sg, b, form) :
                im \in Impls, sg \in AuthSigs(platform, b, form) } :
            form \in {"dumps", "spaced"} }

\* The events a line payload of LineSpec starts with: text messages in the
\* one-to-one chat, with and without timestamp; messages in group G1 and in
\* room R1 sent by different members, and by a member whose userId the
\* platform does not disclose; a message in another group; an image; a
\* message without source; an event that is no message.
LineFirstEvents ==
    { LineTextEvent("hi", ts) : ts \in {0, MaxTs} }
    \cup { LineEvent("message", LineSource("group", u, "G1", Absent), "text", "hi", MaxTs) :
             u \in {Absent, "U1", "U2"} }
    \cup { LineEvent("message", LineSource("room", u, Absent, "R1"), "text", "hi", MaxTs) :
             u \in {Absent, "U1"} }
    \cup { LineEvent("message", LineSource("group", "U1", "G2", Absent), "text", "hi", MaxTs),
           LineEvent("message", LineSource("user", "U1", Absent, Absent), "image", Absent, MaxTs),
           LineEvent("message", LineSource(Absent, Absent, Absent, Absent), "text", "hi", MaxTs),
           LineFollowEvent }

\* Line payloads of up to MaxEvents events.  The events that follow the first
\* one: a message of another member in another conversation, and an event
\* that is no message.
LinePayloads ==
    LET LineTailEvents ==
            { LineEvent("message", LineSource("group", "U2", "G2", Absent), "text", "yo", MaxTs),
              LineFollowEvent }
    IN { LineBody(<<>>) } \cup
       UNION { { LineBody(<<e>> \o tail) : e \in LineFirstEvents,
                                           tail \in [1..n -> LineTailEvents] } :
               n \in 0..(MaxEvents - 1) }

(* ------------------------- canonical message --------------------------- *)

\* "no blob" (s3_uri is None) in the shape of an object key
NoUri == [platform |-> Absent, room |-> <<>>, ts |-> 0, ext |-> Absent]

\* "no message" (Python None) in the shape of a message
None ==
    [ platform |-> "none", room_key |-> <<>>, sender_id |-> Absent, ts |-> 0,
      role |-> "user", text |-> Absent, content_type |-> "text", s3_uri |-> NoUri ]

UnifiedMessage(platform, room_key, sender_id, ts, text, content_type) ==
    [ platform |-> platform, room_key |-> room_key, sender_id |-> sender_id,
      ts |-> ts, role |-> "user", text |-> text, content_type |-> content_type,
      s3_uri |-> NoUri ]

(* ----------------------------- normalizers ----------------------------- *)

\* Faulty variant: the timestamp is always the clock's, the sender's is not read.
CustomNormalizer_normalize_ClockTs(body, clock) ==
    IF ~body.bodyObj THEN None
    ELSE LET room_id   == OrElse(body.roomId, body.chatId)
             sender_id == OrElse(body.senderId, body.userId)
         IN IF Falsy(room_id) \/ Falsy(sender_id) \/ Falsy(body.text) THEN None
            ELSE UnifiedMessage(
                   "custom", <<"custom", room_id>>, sender_id, clock, body.text,
                   IF body.contentType # Absent THEN body.contentType
                   ELSE IF ~Falsy(body.binaryData) THEN "file" ELSE "text")

\* normalizers/custom_normalizer.py
CustomNormalizer_normalize(body, clock) ==
    IF ~body.bodyObj THEN None
    ELSE LET room_id   == OrElse(body.roomId, body.chatId)
             sender_id == OrElse(body.senderId, body.userId)
         IN IF Falsy(room_id) \/ Falsy(sender_id) \/ Falsy(body.text) THEN None
            ELSE UnifiedMessage(
                   "custom", <<"custom", room_id>>, sender_id,
                   IF body.timestamp # 0 THEN body.timestamp ELSE clock,
                   body.text,
                   IF body.contentType # Absent THEN body.contentType
                   ELSE IF ~Falsy(body.binaryData) THEN "file" ELSE "text")

\* normalizer.py, the flat custom normalizer: no required-field check
normalize_custom_message(body, clock) ==
    IF ~body.bodyObj THEN None
    ELSE UnifiedMessage(
           "custom", <<"custom", body.roomId>>, body.senderId,
           IF body.timestamp # 0 THEN body.timestamp ELSE clock,
           body.text,
           IF body.contentType # Absent THEN body.contentType ELSE "text")

\* normalizers/slack_normalizer.py and normalizer.py (same code)
SlackNormalizer_normalize(body, clock) ==
    IF ~body.bodyObj THEN None
    ELSE IF body.kind = "url_verification" THEN None
    ELSE IF body.kind # "message" THEN None
    ELSE UnifiedMessage(
           "slack", <<"slack", "T1", body.roomId>>, body.senderId,
           IF body.timestamp # 0 THEN body.timestamp ELSE clock,
           body.text, "text")

\* normalizers/teams_normalizer.py and normalizer.py (same code)
TeamsNormalizer_normalize(body, clock) ==
    IF ~body.bodyObj THEN None
    ELSE IF body.kind # "message" THEN None
    ELSE UnifiedMessage(
           "teams", <<"teams", "tenant1", body.roomId>>, body.senderId,
           IF body.timestamp # 0 THEN body.timestamp ELSE clock,
           body.text, "text")

\* Faulty variant: the last event of the list is the one processed.
LineNormalizer_normalize_LastEvent(body, clock) ==
    IF ~body.bodyObj THEN None
    ELSE IF body.events = <<>> THEN None
    ELSE LET event == body.events[Len(body.events)]
         IN IF event.type # "message" THEN None
            ELSE LET source       == event.source
                     source_type  == source.type
                     source_id    == OrElse(source.userId,
                                            OrElse(source.groupId, source.roomId))
                     message_type == event.message.type
                     text         == IF message_type = "text" THEN event.message.text
                                     ELSE Absent
                 IN UnifiedMessage(
                      "line", <<"line", source_type, source_id>>,
                      IF source.userId = Absent THEN "unknown" ELSE source.userId,
                      IF event.timestamp # 0 THEN event.timestamp ELSE clock,
                      text,
                      IF Falsy(message_type) THEN "text" ELSE message_type)

\* normalizers/line_normalizer.py and normalizer.py (same code): the first
\* event of the list, if it is a message
LineNormalizer_normalize(body, clock) ==
    IF ~body.bodyObj THEN None
    ELSE IF body.events = <<>> THEN None
    ELSE LET event == body.events[1]
         IN IF event.type # "message" THEN None
            ELSE LET source       == event.source
                     source_type  == source.type
                     source_id    == OrElse(source.userId,
                                            OrElse(source.groupId, source.roomId))
                     message_type == event.message.type
                     text         == IF message_type = "text" THEN event.message.text
                                     ELSE Absent
                 IN UnifiedMessage(
                      "line", <<"line", source_type, source_id>>,
                      IF source.userId = Absent THEN "unknown" ELSE source.userId,
                      IF event.timestamp # 0 THEN event.timestamp ELSE clock,
                      text,
                      IF Falsy(message_type) THEN "text" ELSE message_type)

\* _normalize_message of the handler that serves r
Normalize(r, clock) ==
    CASE r.platform = "custom" /\ r.impl = "class" -> CustomNormalizer_normalize(r.body, clock)
      [] r.platform = "custom" /\ r.impl = "flat"  -> normalize_custom_message(r.body, clock)
      [] r.platform = "slack" -> SlackNormalizer_normalize(r.body, clock)
      [] r.platform = "teams" -> TeamsNormalizer_normalize(r.body, clock)
      [] r.platform = "line"  -> LineNormalizer_normalize(r.body, clock)

(* -------------------------- timestamp parsing -------------------------- *)

\* Integers beyond 32 bits are written as their decimal numerals: a string of
\* digits without leading zeros.
\* the characters of s
Chars(s) == { SubSeq(s, i, i) : i \in 1..Len(s) }

\* s is a non-empty string of digits
AllDigits(s) ==
    Len(s) > 0 /\ Chars(s) \subseteq {"0", "1", "2", "3", "4", "5", "6", "7", "8", "9"}

\* c * n for a string c
RECURSIVE Repeat(_, _)
Repeat(c, n) ==
    IF n = 0 THEN "" ELSE IF n = 1 THEN c
    ELSE Repeat(c, n \div 2) \o Repeat(c, n - (n \div 2))

\* the numeral of the integer a string of digits denotes: float() and int()
\* drop leading zeros.  Every integer of up to 15 digits is a float.
RECURSIVE IntOfDigits(_)
IntOfDigits(s) ==
    IF Len(s) > 1 /\ SubSeq(s, 1, 1) = "0" THEN IntOfDigits(SubSeq(s, 2, Len(s))) ELSE s

\* n * 1000 on numerals
Times1000(n) == IF n = "0" THEN "0" ELSE n \o "000"

\* The values payload.get("timestamp") can give.
\*   type : "null" (None, the key is absent), "int", "str"
\*   val  : the numeral of an int, the text of a str
NullTs == [type |-> "null", val |-> ""]
IntTs(n) == [type |-> "int", val |-> n]
StrTs(text) == [type |-> "str", val |-> text]

\* datetime.fromisoformat(...).timestamp() * 1000 for the ISO-8601 texts of
\* ParseInputs; a text that is no date raises ValueError ("<raises>")
IsoMillis(text) ==
    CASE text = "2021-04-01T00:07:58Z"      -> "1617235678000"
      [] text = "2021-04-01T00:07:58+00:00" -> "1617235678000"
      [] OTHER                              -> "<raises>"

\* BaseNormalizer._parse_timestamp_to_ms and normalizer._parse_timestamp_to_ms
\* (same code), for None, an int >= 0 and a str that is a string of digits, an
\* ISO-8601 text or no number; clock is int(time.time() * 1000).  The result is
\* a numeral.
parse_timestamp_to_ms(timestamp, clock) ==
    IF timestamp.type = "null" \/ timestamp = IntTs("0") \/ timestamp = StrTs("")
    THEN ToString(clock)
    ELSE IF timestamp.type = "int"
    THEN IF Len(timestamp.val) <= 10 THEN Times1000(timestamp.val) ELSE timestamp.val
    ELSE IF {"T", "Z"} \cap Chars(timestamp.val) # {}
    THEN IF IsoMillis(timestamp.val) = "<raises>" THEN ToString(clock)
         ELSE IsoMillis(timestamp.val)
    ELSE IF AllDigits(timestamp.val)
    THEN LET ts_float == IntOfDigits(timestamp.val)
         IN IF Len(timestamp.val) <= 10 THEN Times1000(ts_float) ELSE ts_float
    ELSE ToString(clock)

\* n * 1000 + f on numerals, for 0 <= f < 1000
Times1000Plus(n, f) ==
    IF n = "0" THEN f ELSE n \o Repeat("0", 3 - Len(f)) \o f

\* str.split("."): the parts between the dots
RECURSIVE SplitDots(_)
SplitDots(s) ==
    LET dots == { i \in 1..Len(s) : SubSeq(s, i, i) = "." }
    IN IF dots = {} THEN << s >>
       ELSE LET i == CHOOSE i \in dots : \A j \in dots : i <= j
            IN << SubSeq(s, 1, i - 1) >> \o SplitDots(SubSeq(s, i + 1, Len(s)))

\* SlackNormalizer.normalize and normalize_slack_message (same code): ts_ms of
\* event.get("ts"), for None, an int and a str of digits, dots and letters.
\* int() of a part that is no string of digits raises ValueError, .split of a
\* value that is no str raises AttributeError: both give the clock.
slack_ts_to_ms(ts, clock) ==
    IF ts.type # "str" THEN ToString(clock)
    ELSE LET ts_parts == SplitDots(ts.val)
         IN IF ~AllDigits(ts_parts[1]) THEN ToString(clock)
            ELSE IF Len(ts_parts) = 1 THEN Times1000(IntOfDigits(ts_parts[1]))
            ELSE LET first3 == SubSeq(ts_parts[2], 1,
                                      IF Len(ts_parts[2]) < 3 THEN Len(ts_parts[2]) ELSE 3)
                 IN IF ~AllDigits(first3) THEN ToString(clock)
                    ELSE Times1000Plus(IntOfDigits(ts_parts[1]), IntOfDigits(first3))

\* The seconds and the fractions of the ts values handed to the slack
\* normalizer: fractions of six digits, as the platform sends them, and
\* shorter ones.
\* The ts values: none; a number; "S.F"; seconds without fraction; texts that
\* are no number.
SlackTsInputs ==
    { NullTs, IntTs("1617235678") }
    \cup { StrTs(sec \o "." \o frac) :
             sec \in {"0", "7", "1617235678"},
             frac \in {"000200", "123456", "999999", "000", "005", "500", "05", "50", "5"} }
    \cup { StrTs(t) : t \in {"1617235678", "", "abc", "1617235678.", ".5", "abc.123",
                              "12.ab", "1.2.3"} }

\* The integers handed to the parser, as numerals: for every number of digits
\* up to MaxDigits the smallest, the largest and one more; zero; and the two
\* examples of the parser's documentation.
Numerals ==
    UNION { { "1" \o Repeat("0", d - 1), Repeat("9", d), Repeat("1", d) } :
            d \in 1..MaxDigits }
    \cup {"0", "1617235678", "1617235678000"}

\* The timestamps handed to the parser: none; every integer of Numerals as an
\* int and as its decimal string; strings of digits with leading zeros; ISO
\* texts; texts that are no number.
ParseInputs ==
    {NullTs} \cup { IntTs(n) : n \in Numerals } \cup { StrTs(n) : n \in Numerals }
    \cup { StrTs(t) : t \in {"", "abc", "0001617235678", "007",
                              "2021-04-01T00:07:58Z", "2021-04-01T00:07:58+00:00",
                              "Tuesday"} }

(* --------------------------- model selection -------------------------- *)

\* `k in s` for strings
Contains(s, k) ==
    \E i \in 1..(Len(s) - Len(k) + 1) : SubSeq(s, i, i + Len(k) - 1) = k

UpperCase == "ABCDEFGHIJKLMNOPQRSTUVWXYZ"
LowerCase == "abcdefghijklmnopqrstuvwxyz"

\* str.lower
RECURSIVE Lower(_)
Lower(s) ==
    IF Len(s) <= 1
    THEN IF \E i \in 1..26 : SubSeq(UpperCase, i, i) = s
         THEN LET i == CHOOSE i \in 1..26 : SubSeq(UpperCase, i, i) = s
              IN SubSeq(LowerCase, i, i)
         ELSE s
    ELSE Lower(SubSeq(s, 1, Len(s) \div 2))
         \o Lower(SubSeq(s, (Len(s) \div 2) + 1, Len(s)))

\* str.strip of blanks
RECURSIVE Strip(_)
Strip(s) ==
    IF s = "" THEN ""
    ELSE IF SubSeq(s, 1, 1) = " " THEN Strip(SubSeq(s, 2, Len(s)))
    ELSE IF SubSeq(s, Len(s), Len(s)) = " " THEN Strip(SubSeq(s, 1, Len(s) - 1))
    ELSE s

\* str.split(): the words between blanks
RECURSIVE Split(_)
Split(s) ==
    LET blanks == { i \in 1..Len(s) : SubSeq(s, i, i) = " " }
    IN IF s = "" THEN <<>>
       ELSE IF blanks = {} THEN << s >>
       ELSE LET i == CHOOSE i \in blanks : \A j \in blanks : i <= j
            IN (IF i = 1 THEN <<>> ELSE << SubSeq(s, 1, i - 1) >>)
               \o Split(SubSeq(s, i + 1, Len(s)))

\* str.replace(old, new): every occurrence, from the left
RECURSIVE Replace(_, _, _)
Replace(s, old, new) ==
    IF Len(s) < Len(old) THEN s
    ELSE IF SubSeq(s, 1, Len(old)) = old
    THEN new \o Replace(SubSeq(s, Len(old) + 1, Len(s)), old, new)
    ELSE SubSeq(s, 1, 1) \o Replace(SubSeq(s, 2, Len(s)), old, new)

\* The task types in the order of the keys of self.task_keywords.
TaskTypes == << "technical", "creative", "analysis", "general" >>

\* self.task_keywords: the keywords in Latin letters.  A keyword in Japanese is
\* no substring of a message in Latin letters.
task_keywords(task_type) ==
    CASE task_type = "technical" ->
           { "bug", "error", "exception", "issue", "problem", "debug", "fix",
             "troubleshoot", "code", "function", "method", "api", "database", "sql",
             "query", "server", "deploy", "config", "performance" }
      [] task_type = "creative" ->
           { "create", "write", "generate", "design", "story", "article", "blog",
             "content", "creative", "imagine", "brainstorm", "novel", "poem",
             "script", "marketing" }
      [] task_type = "analysis" ->
           { "analyze", "compare", "evaluate", "review", "explain", "summarize",
             "research", "report", "data", "statistics", "trend", "insight",
             "conclusion", "recommendation", "strategy", "planning" }
      [] task_type = "general" ->
           { "hello", "help", "question", "what", "how", "why", "when", "where",
             "who", "please", "thanks", "sorry" }

\* self.complexity_indicators: the keywords in Latin letters
complexity_indicators(level) ==
    CASE level = "high" ->
           { "complex", "detailed", "comprehensive", "thorough", "deep", "advanced",
             "multi-step", "integration", "architecture" }
      [] level = "medium" ->
           { "moderate", "standard", "typical", "normal", "regular", "basic" }
      [] level = "low" ->
           { "simple", "easy", "quick", "brief", "basic", "straightforward" }

\* _classify_task, the score of one task type: 2 for a keyword that is in the
\* message, else 1 for a keyword that is in one of its words
TaskScore(task_type, message) ==
    LET words  == Split(message)
        exact  == { k \in task_keywords(task_type) : Contains(message, k) }
        partly == { k \in task_keywords(task_type) \ exact :
                      \E n \in 1..Len(words) : Contains(words[n], k) }
    IN 2 * Cardinality(exact) + Cardinality(partly)

\* ModelSelectorService._classify_task: max(task_scores, key=task_scores.get)
\* gives the first task type, in the order of the dict, with the highest score
classify_task(message) ==
    LET score(n) == TaskScore(TaskTypes[n], message)
        best     == CHOOSE n \in 1..4 :
                      /\ \A m \in 1..4 : score(m) <= score(n)
                      /\ \A m \in 1..(n - 1) : score(m) < score(n)
    IN IF \A n \in 1..4 : score(n) = 0 THEN "general" ELSE TaskTypes[best]

\* ModelSelectorService._assess_complexity
assess_complexity(message) ==
    LET length_score == IF Len(message) > 200 THEN 2
                        ELSE IF Len(message) > 100 THEN 1 ELSE 0
        hits(level)  == Cardinality({ k \in complexity_indicators(level) :
                                        Contains(message, k) })
        total_complexity == hits("high") * 3 + hits("medium") * 2 + hits("low") * 1
                            + length_score
    IN IF total_complexity >= 4 THEN "high"
       ELSE IF total_complexity >= 2 THEN "medium"
       ELSE "low"

\* Faulty variant: a simple message is downgraded whatever its task type is.
determine_model_AnyTaskDowngrades(task_type, complexity, task_model_mapping, default_model) ==
    LET base_model == IF task_type \in DOMAIN task_model_mapping
                      THEN task_model_mapping[task_type] ELSE default_model
    IN IF complexity = "high" /\ Contains(Lower(base_model), "haiku")
       THEN Replace(base_model, "haiku", "sonnet")
       ELSE IF complexity = "low" /\ Contains(Lower(base_model), "sonnet")
       THEN Replace(base_model, "sonnet", "haiku")
       ELSE base_model

\* ModelSelectorService._determine_model; task_model_mapping is a function
\* from some of the task types to model ids
determine_model(task_type, complexity, task_model_mapping, default_model) ==
    LET base_model == IF task_type \in DOMAIN task_model_mapping
                      THEN task_model_mapping[task_type] ELSE default_model
    IN IF complexity = "high" /\ Contains(Lower(base_model), "haiku")
       THEN Replace(base_model, "haiku", "sonnet")
       ELSE IF complexity = "low" /\ Contains(Lower(base_model), "sonnet")
                                 /\ task_type = "general"
       THEN Replace(base_model, "sonnet", "haiku")
       ELSE base_model

\* the default of ai_config.get('defaultModel', ...)
DefaultModel == "anthropic.claude-3-5-haiku-20241022-v2:0"

\* ModelSelectorService.select_model.  ai_config: defaultModel (Absent when
\* the key is missing) and taskModelMapping
select_model(user_message, ai_config) ==
    LET default_model      == IF ai_config.defaultModel = Absent THEN DefaultModel
                              ELSE ai_config.defaultModel
        normalized_message == Strip(Lower(user_message))
        task_type          == classify_task(normalized_message)
        complexity         == assess_complexity(normalized_message)
    IN determine_model(task_type, complexity, ai_config.taskModelMapping,
                       default_model)

\* The words of the messages handed to the selector: keywords of each task
\* type as a word of their own ("bug", "story", "data", "Hello") and inside a
\* longer word ("debugging", "scripts"); a word that is no keyword; and
\* indicators of each complexity level, "basic" being in two lists.
Vocabulary ==
    { "bug", "debugging", "story", "scripts", "data", "Hello", "weather",
      "complex", "standard", "simple", "basic" }

\* " ".join(words)
RECURSIVE Join(_)
Join(words) ==
    IF Len(words) = 0 THEN ""
    ELSE IF Len(words) = 1 THEN words[1]
    ELSE words[1] \o " " \o Join(Tail(words))

\* The user messages: up to MaxWords words; the empty message; a message with
\* blanks around it; messages of 100, 101, 200 and 201 characters, and longer
\* ones that begin with a keyword.
SelectMessages ==
    { "", " Bug " } \cup
    { Strip(w \o " " \o Repeat("x", n)) :
        w \in {"", "simple", "standard", "complex", "bug"}, n \in {100, 101, 200, 201} } \cup
    UNION { { Join(words) : words \in [1..n -> Vocabulary] } : n \in 1..MaxWords }

\* Model ids: the fast and the capable tier of two families, and a model that
\* is of neither tier.
ModelIds ==
    { "anthropic.claude-3-5-haiku-20241022-v2:0",
      "anthropic.claude-3-5-sonnet-20241022-v2:0",
      "anthropic.claude-3-haiku-20240307-v1:0",
      "anthropic.claude-3-sonnet-20240229-v1:0",
      "amazon.titan-text-express-v1" }

\* taskModelMapping: none; one that maps every task type; two that map some.
TaskModelMappings ==
    { [t \in {} |-> ""],
      [t \in {"technical", "creative", "analysis", "general"} |->
         IF t \in {"technical", "analysis"}
         THEN "anthropic.claude-3-5-sonnet-20241022-v2:0"
         ELSE "anthropic.claude-3-5-haiku-20241022-v2:0"],
      [t \in {"general"} |-> "anthropic.claude-3-sonnet-20240229-v1:0"],
      [t \in {"creative", "general"} |-> "amazon.titan-text-express-v1"] }

\* aiConfig of a bot: without default model and mapping; with a capable
\* default model and no mapping; with a mapping for every task type.
AiConfigs ==
    { [defaultModel |-> Absent, taskModelMapping |-> [t \in {} |-> ""]],
      [defaultModel |-> "anthropic.claude-3-5-sonnet-20241022-v2:0",
       taskModelMapping |-> [t \in {} |-> ""]],
      [defaultModel |-> "amazon.titan-text-express-v1",
       taskModelMapping |->
         [t \in {"technical", "creative", "analysis", "general"} |->
            IF t \in {"technical", "analysis"}
            THEN "anthropic.claude-3-5-sonnet-20241022-v2:0"
            ELSE "anthropic.claude-3-5-haiku-20241022-v2:0"]] }

(* ------------------------ signature verification ----------------------- *)

\* Faulty variant: the MAC is taken over the re-serialized body.
SlackVerify_OverDumps(r) ==
    IF r.sig.secret = "" THEN TRUE
    ELSE IF r.sig.tsHdr = "" \/ r.sig.hdr = "" THEN FALSE
    ELSE "v0=" \o hmac_sha256(r.sig.secret,
                              "v0:" \o r.sig.tsHdr \o ":" \o json_dumps(r.body))
           = r.sig.hdr

\* SlackWebhookHandler._verify_signature and _verify_slack_signature: the MAC
\* over "v0:" + timestamp header + ":" + raw body
SlackVerify(r) ==
    IF r.sig.secret = "" THEN TRUE
    ELSE IF r.sig.tsHdr = "" \/ r.sig.hdr = "" THEN FALSE
    ELSE LET base_string  == "v0:" \o r.sig.tsHdr \o ":" \o r.raw
             my_signature == "v0=" \o hmac_sha256(r.sig.secret, base_string)
         IN my_signature = r.sig.hdr

\* Faulty variant: without a secret the check fails, as _verify_line_signature
\* does when it is called unguarded.
LineVerify_SecretRequired(r) ==
    IF r.sig.secret = "" \/ r.sig.hdr = "" THEN FALSE
    ELSE hmac_sha256_b64(r.sig.secret, json_dumps(r.body)) = r.sig.hdr

\* LineWebhookHandler._verify_signature and _verify_line_signature: the base64
\* MAC over json.dumps(body)
LineVerify(r) ==
    IF r.sig.secret = "" THEN TRUE
    ELSE IF r.sig.hdr = "" THEN FALSE
    ELSE LET body_str == json_dumps(r.body)
         IN hmac_sha256_b64(r.sig.secret, body_str) = r.sig.hdr

\* CustomWebhookHandler._verify_signature and _verify_custom_signature: the hex
\* MAC over json.dumps(body)
CustomVerify(r) ==
    IF r.sig.secret = "" THEN TRUE
    ELSE IF r.sig.hdr = "" THEN FALSE
    ELSE LET body_str == json_dumps(r.body)
         IN hmac_sha256(r.sig.secret, body_str) = r.sig.hdr

\* Faulty variant: the bearer token has to be the secret.
TeamsVerify_TokenIsSecret(r) ==
    IF r.sig.secret = "" THEN TRUE
    ELSE r.sig.hdr = "Bearer " \o r.sig.secret

\* TeamsWebhookHandler._verify_signature and _verify_teams_auth
TeamsVerify(r) ==
    IF r.sig.secret = "" THEN TRUE
    ELSE IF r.sig.hdr = "" THEN FALSE
    ELSE Len(r.sig.hdr) >= 7 /\ SubSeq(r.sig.hdr, 1, 7) = "Bearer "

\* _verify_signature of the handler that serves r
VerifySignatureOf(r) ==
    CASE r.platform = "slack"  -> SlackVerify(r)
      [] r.platform = "teams"  -> TeamsVerify(r)
      [] r.platform = "line"   -> LineVerify(r)
      [] r.platform = "custom" -> CustomVerify(r)

(* ------------------------------ responses ------------------------------ *)

\* A response dict.
\*   headers  : the names of the response's headers; {} when the dict has no
\*              "headers" key
\*   bodyKeys : the keys of the JSON object in "body"
\*   status, error, challenge, roomKey, messageTs : values of that object
NoResponse ==
    [ statusCode |-> 0, status |-> Absent, error |-> Absent, challenge |-> Absent,
      roomKey |-> <<>>, messageTs |-> 0, headers |-> {}, bodyKeys |-> {} ]

\* responses.WEBHOOK_HEADERS
WEBHOOK_HEADERS == {"Content-Type", "Access-Control-Allow-Origin"}

create_error_response(code, error) ==
    [NoResponse EXCEPT !.statusCode = code, !.error = error,
                       !.headers = WEBHOOK_HEADERS,
                       !.bodyKeys = {"error", "message", "timestamp"}]

\* create_success_response(create_ignored_response(platform, reason))
create_ignored_response ==
    [NoResponse EXCEPT !.statusCode = 200, !.status = "ignored",
                       !.headers = WEBHOOK_HEADERS,
                       !.bodyKeys = {"status", "platform", "message", "timestamp"}]

\* create_success_response(create_platform_success_response(...))
create_platform_success_response(m) ==
    [NoResponse EXCEPT !.statusCode = 200, !.status = "success",
                       !.headers = WEBHOOK_HEADERS,
                       !.bodyKeys = {"status", "platform", "message", "timestamp",
                                     "roomKey", "messageTs"},
                       !.roomKey = m.room_key, !.messageTs = m.ts]

\* create_success_response({"challenge": body.get("challenge", "")})
ChallengeResponse(body) ==
    [NoResponse EXCEPT !.statusCode = 200, !.headers = WEBHOOK_HEADERS,
                       !.bodyKeys = {"challenge"},
                       !.challenge = IF body.challenge = Absent THEN "" ELSE body.challenge]

\* the bare dicts CustomWebhookHandler._pre_process returns: no "headers" key; a
\* body of error and message, of error alone when the lookup raised
PreCheckResponse(code, error) ==
    [NoResponse EXCEPT !.statusCode = code, !.error = error,
                       !.bodyKeys = IF code = 500 THEN {"error"}
                                    ELSE {"error", "message"}]

(* ------------------------------- storage ------------------------------- *)

\* storage.TTL_SECONDS, the default of the environment variable
TTL_SECONDS == 86400

\* Faulty variant: the sort key is the time of the write.
Item_SortKeyIsClock(m, clock) ==
    [ PK |-> m.room_key, SK |-> clock, role |-> m.role, contentType |-> m.content_type,
      ttl |-> (clock \div 1000) + TTL_SECONDS,
      text  |-> IF Falsy(m.text) THEN Absent ELSE m.text,
      s3Uri |-> m.s3_uri ]

\* storage.save_message: the item put for message m when the clock reads clock
\* (ms); ttl is in seconds
Item(m, clock) ==
    [ PK |-> m.room_key, SK |-> m.ts, role |-> m.role, contentType |-> m.content_type,
      ttl |-> (clock \div 1000) + TTL_SECONDS,
      text  |-> IF Falsy(m.text) THEN Absent ELSE m.text,
      s3Uri |-> m.s3_uri ]

\* Faulty variant: the item is not stored.
PutItem_Dropped(table, item) == table

\* table.put_item: an upsert keyed by (PK, SK)
PutItem(table, item) ==
    {row \in table : ~(row.PK = item.PK /\ row.SK = item.SK)} \cup {item}

\* storage._determine_extension
DetermineExtension(content_type) ==
    CASE content_type = "image" -> "jpg"
      [] content_type = "video" -> "mp4"
      [] content_type = "audio" -> "mp3"
      [] OTHER                  -> "bin"

\* storage.save_binary_to_s3: <platform>/<roomKey with ':' replaced>/<ts>.<ext>;
\* the URI is "s3://" + bucket + "/" + key, one per key
ObjectKey(m, file_extension) ==
    [ platform |-> m.platform, room |-> m.room_key, ts |-> m.ts,
      ext |-> IF Falsy(file_extension) THEN DetermineExtension(m.content_type)
              ELSE file_extension ]

\* storage.CHAT_ASSETS_BUCKET, its default
CHAT_ASSETS_BUCKET == "chat-assets-prod"

\* storage._get_content_type: mimetypes.guess_type("file." + extension)[0], or
\* "application/octet-stream" for an extension without a type.  The table of
\* the standard library, for the extensions used here; it ignores case.
_get_content_type(extension) ==
    LET e == Lower(extension)
    IN CASE e \in {"jpg", "jpeg"} -> "image/jpeg"
         [] e = "png" -> "image/png"
         [] e = "mp4" -> "video/mp4"
         [] e = "mp3" -> "audio/mpeg"
         [] e = "pdf" -> "application/pdf"
         [] OTHER -> "application/octet-stream"

\* "put_object did not succeed" in the shape of its arguments
NoPut == [ Bucket |-> Absent, Key |-> Absent, ContentType |-> Absent ]

\* Faulty variant: the default of the content type wins over the extension of
\* the caller.
save_binary_to_s3_CategoryWins(message, file_extension) ==
    LET ext == OrElse(DetermineExtension(message.content_type), file_extension)
        room_key_safe == Replace(message.room_key, ":", "_")
        object_key == message.platform \o "/" \o room_key_safe \o "/"
                         \o ToString(message.ts) \o "." \o ext
    IN [ put |-> [ Bucket |-> CHAT_ASSETS_BUCKET, Key |-> object_key,
                   ContentType |-> _get_content_type(ext) ],
         s3_uri |-> "s3://" \o CHAT_ASSETS_BUCKET \o "/" \o object_key ]

\* storage.save_binary_to_s3, for a message whose room_key is a str: the
\* arguments of put_object (without the body) and the URI returned.
save_binary_to_s3(message, file_extension) ==
    LET ext == OrElse(file_extension, DetermineExtension(message.content_type))
        room_key_safe == Replace(message.room_key, ":", "_")
        object_key == message.platform \o "/" \o room_key_safe \o "/"
                         \o ToString(message.ts) \o "." \o ext
    IN [ put |-> [ Bucket |-> CHAT_ASSETS_BUCKET, Key |-> object_key,
                   ContentType |-> _get_content_type(ext) ],
         s3_uri |-> "s3://" \o CHAT_ASSETS_BUCKET \o "/" \o object_key ]

\* Messages as the normalizers build them, with the room key as the str it is.
UploadMessages ==
    { UnifiedMessage(k[1], k[2], "u1", ts, Absent, content_type) :
        k \in { << "slack", "slack:T123:C456" >>, << "teams", "teams:t1:c1" >>,
                << "line", "line:group:G1" >>, << "custom", "custom:room1" >> },
        ts \in {0, MaxTs},
        content_type \in {"text", "image", "video", "audio", "file"} }

\* chat-room and bot records as the handlers read them
\*   isActive: "true", "false" or Absent (the attribute is missing)
RoomStates ==
    { [found |-> FALSE, isActive |-> Absent, botId |-> Absent],
      [found |-> TRUE, isActive |-> "true", botId |-> Absent] } \cup
    { [found |-> TRUE, isActive |-> a, botId |-> b] :
        a \in {"true", "false", Absent}, b \in BotIds }

BotStates ==
    { [found |-> FALSE, isActive |-> Absent, aiConfig |-> FALSE],
      [found |-> TRUE, isActive |-> "true", aiConfig |-> FALSE] } \cup
    { [found |-> TRUE, isActive |-> a, aiConfig |-> TRUE] :
        a \in {"true", "false", Absent} }

(* ------------------------------- state --------------------------------- *)

VARIABLES
    pc,         \* pc[p]: the step invocation p is at
    req,        \* req[p]: the request p serves
    rid,        \* rid[p]: the number of the request p serves
    msg,        \* msg[p]: the canonical message, None before normalization
    resp,       \* resp[p]: the response returned, NoResponse until then
    did,        \* did[p]: what p has done for its request so far
    store,      \* the message table: a set of items, one per (PK, SK)
    blobs,      \* the object keys written to the asset bucket
    queue,      \* the AI jobs sent to the queue
    chatRooms,  \* chat-room table
    bots,       \* bot-settings table
    now,        \* the last reading of the wall clock, ms
    served,     \* requests received so far
    customWrites, \* successful message-store writes of custom-UI requests
    call,       \* the last call of a function that is invoked on its own
    sqs,        \* the invocation of the queue consumer: its batch and its counts
    replies     \* the assistant replies persisted, in the order of the writes

vars == << pc, req, rid, msg, resp, did, store, blobs, queue, chatRooms, bots,
           now, served, customWrites, call, sqs, replies >>

\* no function has been called yet
NoCall == [fn |-> "none", arg |-> Absent, result |-> Absent]

\* the queue consumer has not been invoked
NoSqsEvent ==
    [ pc |-> "idle", records |-> << >>, done |-> << >>, processedCount |-> 0,
      errorCount |-> 0, statusCode |-> 0 ]

NoRequest ==
    [ platform |-> "none", impl |-> "class", method |-> "POST", path |-> "",
      sig |-> Unsigned, raw |-> "",
      body |-> BodyDefaults ]

Init ==
    /\ pc = [p \in Procs |-> "idle"]
    /\ req = [p \in Procs |-> NoRequest]
    /\ rid = [p \in Procs |-> 0]
    /\ msg = [p \in Procs |-> None]
    /\ resp = [p \in Procs |-> NoResponse]
    /\ did = [p \in Procs |-> {}]
    /\ store = {}
    /\ blobs = {}
    /\ queue = {}
    /\ chatRooms \in [ChatIds -> RoomStates]
    /\ bots \in [BotIds -> BotStates]
    /\ now = 1
    /\ served = 0
    /\ customWrites = 0
    /\ call = NoCall
    /\ sqs = NoSqsEvent
    /\ replies = << >>

\* p returns response r
Return(p, r) ==
    /\ resp' = [resp EXCEPT ![p] = r]
    /\ pc' = [pc EXCEPT ![p] = "done"]

Goto(p, step) ==
    /\ pc' = [pc EXCEPT ![p] = step]
    /\ UNCHANGED resp

Did(p, what) == did' = [did EXCEPT ![p] = @ \cup what]

IsCustomClass(r) == r.platform = "custom" /\ r.impl = "class"

(* ------------------------------ actions -------------------------------- *)

\* A request out of Reqs arrives at a free invocation.
Receive(p, Reqs) ==
    /\ pc[p] \in {"idle", "done"}
    /\ \E r \in Reqs : req' = [req EXCEPT ![p] = r]
    /\ served' = served + 1
    /\ rid' = [rid EXCEPT ![p] = served + 1]
    /\ msg' = [msg EXCEPT ![p] = None]
    /\ resp' = [resp EXCEPT ![p] = NoResponse]
    /\ did' = [did EXCEPT ![p] = {}]
    /\ pc' = [pc EXCEPT ![p] = IF req'[p].impl = "flat" THEN "route" ELSE "verify"]
    /\ UNCHANGED << sqs, replies, call, store, blobs, queue, chatRooms, bots, now, customWrites >>

\* Faulty variant: the path is looked at before the method.
HandlerOf_PathFirst(method, path) ==
    IF path = "/webhook/custom" THEN "custom"
    ELSE IF path = "/webhook/line" THEN "line"
    ELSE IF path = "/webhook/slack" THEN "slack"
    ELSE IF path = "/webhook/teams" THEN "teams"
    ELSE IF method # "POST" THEN "405"
    ELSE "404"

\* handle_webhook_request: the flat handler the request is dispatched to, or
\* the status it is turned away with
HandlerOf(method, path) ==
    IF method # "POST" THEN "405"
    ELSE IF path = "/webhook/custom" THEN "custom"
    ELSE IF path = "/webhook/line" THEN "line"
    ELSE IF path = "/webhook/slack" THEN "slack"
    ELSE IF path = "/webhook/teams" THEN "teams"
    ELSE "404"

\* handle_webhook_request: method check and dispatch by path.
Route(p) ==
    /\ pc[p] = "route"
    /\ LET handler == HandlerOf(req[p].method, req[p].path)
       IN IF handler = "405"
          THEN /\ Return(p, create_error_response(405, "Method Not Allowed"))
               /\ UNCHANGED req
          ELSE IF handler = "404"
          THEN /\ Return(p, create_error_response(404, "Not Found"))
               /\ UNCHANGED req
          ELSE /\ req' = [req EXCEPT ![p].platform = handler]
               /\ Goto(p, "verify")
    /\ UNCHANGED << sqs, replies, call, rid, msg, did, store, blobs, queue, chatRooms, bots, now,
                    served, customWrites >>

\* Faulty variant of step 1: the result of the check is not looked at.
VerifySignature_Unchecked(p) ==
    /\ pc[p] = "verify"
    /\ Goto(p, "pre")
    /\ Did(p, {"verify"})
    /\ UNCHANGED << sqs, replies, call, req, rid, msg, store, blobs, queue, chatRooms, bots, now,
                    served, customWrites >>

\* Faulty variant of step 1: a slack challenge is answered before the signature
\* is checked.
VerifySignature_ChallengeFirst(p) ==
    /\ pc[p] = "verify"
    /\ IF req[p].platform = "slack" /\ req[p].body.kind = "url_verification"
         THEN Return(p, ChallengeResponse(req[p].body))
         ELSE IF ~VerifySignatureOf(req[p])
         THEN Return(p, create_error_response(401, "Unauthorized"))
         ELSE Goto(p, "pre")
    /\ Did(p, {"verify"})
    /\ UNCHANGED << sqs, replies, call, req, rid, msg, store, blobs, queue, chatRooms, bots, now,
                    served, customWrites >>

\* Step 1: signature verification.
VerifySignature(p) ==
    /\ pc[p] = "verify"
    /\ IF ~VerifySignatureOf(req[p])
         THEN Return(p, create_error_response(401, "Unauthorized"))
         ELSE Goto(p, "pre")
    /\ Did(p, {"verify"})
    /\ UNCHANGED << sqs, replies, call, req, rid, msg, store, blobs, queue, chatRooms, bots, now,
                    served, customWrites >>

\* DynamoDBManager.get_chat_room / get_bot_settings: {"found", "data"}
get_chat_room(rooms, chat_id) ==
    IF chat_id \in DOMAIN rooms THEN rooms[chat_id]
    ELSE [found |-> FALSE, isActive |-> Absent, botId |-> Absent]

get_bot_settings(table, bot_id) ==
    IF bot_id \in DOMAIN table THEN table[bot_id]
    ELSE [found |-> FALSE, isActive |-> Absent, aiConfig |-> FALSE]

\* Faulty variant of the custom pre-check: the isActive test is left out.
CustomPreProcess_NoActiveCheck(body, rooms, lookupRaises) ==
    IF Falsy(body.chatId) THEN NoResponse
    ELSE IF lookupRaises THEN PreCheckResponse(500, "Failed to verify chat room")
    ELSE IF ~get_chat_room(rooms, body.chatId).found
         THEN PreCheckResponse(404, "Chat room not found")
    ELSE NoResponse

\* CustomWebhookHandler._pre_process; NoResponse stands for "return None".
\* lookupRaises: the chat-room lookup raises
CustomPreProcess(body, rooms, lookupRaises) ==
    IF Falsy(body.chatId) THEN NoResponse
    ELSE IF lookupRaises THEN PreCheckResponse(500, "Failed to verify chat room")
    ELSE LET chat_result == get_chat_room(rooms, body.chatId)
         IN IF ~chat_result.found THEN PreCheckResponse(404, "Chat room not found")
            ELSE IF chat_result.isActive = "false"
                 THEN PreCheckResponse(403, "Chat room inactive")
            ELSE NoResponse

\* Faulty variant of the slack pre-check: the challenge is not answered.
SlackPreProcess_NoChallenge(body) == NoResponse

\* SlackWebhookHandler._pre_process, and the same test in _handle_slack_webhook
SlackPreProcess(body) ==
    IF body.kind = "url_verification" THEN ChallengeResponse(body) ELSE NoResponse

\* Whether the handler that serves r reads the body in its pre-check.
HasPreCheck(r) ==
    r.platform = "slack" \/ IsCustomClass(r)

\* The result of the pre-check of the handler that serves r.  body.get on a body
\* that is no object raises, and the handler's except clause answers 500.
PreProcessResult(r, rooms, lookupRaises) ==
    IF ~HasPreCheck(r) THEN NoResponse
    ELSE IF ~r.body.bodyObj THEN create_error_response(500, "Internal Server Error")
    ELSE IF r.platform = "slack" THEN SlackPreProcess(r.body)
    ELSE CustomPreProcess(r.body, rooms, lookupRaises)

\* Step 2: the platform pre-check.
PreProcess(p) ==
    /\ pc[p] = "pre"
    /\ \E lookupRaises \in BOOLEAN :
         LET pre_result == PreProcessResult(req[p], chatRooms, lookupRaises)
         IN IF pre_result # NoResponse THEN Return(p, pre_result)
            ELSE Goto(p, "normalize")
    /\ Did(p, IF req[p].impl = "class" \/ HasPreCheck(req[p]) THEN {"pre"} ELSE {})
    /\ UNCHANGED << sqs, replies, call, req, rid, msg, store, blobs, queue, chatRooms, bots, now,
                    served, customWrites >>

\* Faulty variant: a request without a message is rejected.
NotAMessageResponse_BadRequest(r) == create_error_response(400, "Bad Request")

\* Faulty variant: the flat handlers reject a request without a message.
NotAMessageResponse_FlatRejects(r) ==
    IF r.impl = "flat"
    THEN create_error_response(400, "Bad Request")
    ELSE create_ignored_response

\* The answer to a request whose normalizer returned None.
NotAMessageResponse(r) ==
    IF r.platform = "custom" /\ r.impl = "flat"
    THEN create_error_response(400, "Bad Request")
    ELSE create_ignored_response

\* Whether the normalizer of the handler that serves r reads the clock: it does
\* for a message that carries no timestamp.
ReadsClock(r) ==
    Normalize(r, 0) # Normalize(r, 1)

\* Step 3: normalization.  The clock has not gone back since it was last read.
NormalizeMessage(p) ==
    /\ pc[p] = "normalize"
    /\ \E clock \in (IF ReadsClock(req[p]) THEN now..MaxNow ELSE {now}) :
         LET message == Normalize(req[p], clock)
         IN /\ now' = clock
            /\ msg' = [msg EXCEPT ![p] = message]
            /\ IF message = None THEN Return(p, NotAMessageResponse(req[p]))
               ELSE Goto(p, "attach")
    /\ Did(p, {"normalize"})
    /\ UNCHANGED << sqs, replies, call, req, rid, store, blobs, queue, chatRooms, bots, served,
                    customWrites >>

\* storage.process_binary_data: what becomes of the upload
\*   "none"   : no binary data in the body, nothing is attempted
\*   "decode" : base64 decoding raises, nothing is uploaded
\*   "upload" : the bytes go to put_object
BinaryStep(r) ==
    IF r.platform # "custom" \/ Falsy(r.body.binaryData) THEN "none"
    ELSE IF r.body.binaryData = "b64bad" THEN "decode"
    ELSE "upload"

\* Faulty variant of step 4: a failed decode or upload raises, and the handler's
\* except clause answers 500.
ProcessBinaryData_FailureRaises(p) ==
    /\ pc[p] = "attach"
    /\ \E uploadOk \in BOOLEAN :
         LET key == ObjectKey(msg[p], req[p].body.fileExtension)
         IN IF BinaryStep(req[p]) = "upload" /\ uploadOk
            THEN /\ blobs' = blobs \cup {key}
                 /\ msg' = [msg EXCEPT ![p].s3_uri = key]
                 /\ Did(p, {"upload_try", "upload"})
                 /\ Goto(p, "persist")
            ELSE IF BinaryStep(req[p]) = "none"
            THEN /\ UNCHANGED << blobs, msg, did >>
                 /\ Goto(p, "persist")
            ELSE /\ UNCHANGED << blobs, msg >>
                 /\ Did(p, IF BinaryStep(req[p]) = "decode" THEN {"decode_failed"}
                           ELSE {"upload_try"})
                 /\ Return(p, create_error_response(500, "Internal Server Error"))
    /\ UNCHANGED << sqs, replies, call, req, rid, store, queue, chatRooms, bots, now, served, customWrites >>

\* Step 4: the attachment.  uploadOk: put_object succeeds.
ProcessBinaryData(p) ==
    /\ pc[p] = "attach"
    /\ \E uploadOk \in BOOLEAN :
         LET key == ObjectKey(msg[p], req[p].body.fileExtension)
         IN IF BinaryStep(req[p]) = "upload"
            THEN IF uploadOk
                 THEN /\ blobs' = blobs \cup {key}
                      /\ msg' = [msg EXCEPT ![p].s3_uri = key]
                      /\ Did(p, {"upload_try", "upload"})
                 ELSE /\ UNCHANGED << blobs, msg >>
                      /\ Did(p, {"upload_try"})
            ELSE /\ UNCHANGED << blobs, msg >>
                 /\ Did(p, IF BinaryStep(req[p]) = "decode" THEN {"decode_failed"} ELSE {})
    /\ Goto(p, "persist")
    /\ UNCHANGED << sqs, replies, call, req, rid, store, queue, chatRooms, bots, now, served, customWrites >>

\* Faulty variant: the bot's isActive flag is not tested.
ShouldTriggerAiProcessing_NoActiveCheck(bot_result) ==
    /\ bot_result.found
    /\ bot_result.aiConfig

\* CustomWebhookHandler._should_trigger_ai_processing, given the bot record read
ShouldTriggerAiProcessing(bot_result) ==
    /\ bot_result.found
    /\ bot_result.isActive = "true"
    /\ bot_result.aiConfig

\* The chat room of the body names a bot for which AI processing is to be triggered.
BotEligible(body, rooms, table) ==
    /\ ~Falsy(body.chatId)
    /\ LET chat_result == get_chat_room(rooms, body.chatId)
       IN /\ chat_result.found
          /\ ~Falsy(chat_result.botId)
          /\ ShouldTriggerAiProcessing(get_bot_settings(table, chat_result.botId))

\* The outcomes of the calls _trigger_ai_processing makes to its collaborators:
\* all succeed, a table lookup raises, SQSService() raises, or the send fails.
PostOutcomes == {"ok", "room_lookup_raises", "bot_lookup_raises", "sqs_init_raises",
                 "send_fails"}

\* CustomWebhookHandler._post_process / _trigger_ai_processing:
\* whether send_ai_processing_message is called
SendAttempted(m, body, rooms, table, outcome) ==
    /\ m.role = "user" /\ ~Falsy(m.text)
    /\ ~Falsy(body.chatId)
    /\ outcome \notin {"room_lookup_raises", "bot_lookup_raises", "sqs_init_raises"}
    /\ BotEligible(body, rooms, table)

\* Faulty variant: the job does not carry the id of the message.
Job_NoMessageId(m, body, rooms, id) ==
    [ chatId |-> body.chatId, botId |-> get_chat_room(rooms, body.chatId).botId,
      userMessage |-> m.text, userMessageId |-> 0, source |-> "custom-ui",
      platform |-> "custom",
      userId |-> IF body.userId = Absent THEN "unknown" ELSE body.userId,
      roomKey |-> m.room_key ]

\* SQSService.send_ai_processing_message: the message body
Job(m, body, rooms, id) ==
    [ chatId |-> body.chatId, botId |-> get_chat_room(rooms, body.chatId).botId,
      userMessage |-> m.text, userMessageId |-> id, source |-> "custom-ui",
      platform |-> "custom",
      userId |-> IF body.userId = Absent THEN "unknown" ELSE body.userId,
      roomKey |-> m.room_key ]

\* Faulty variant of step 5: a failed write is swallowed and the handler goes on.
SaveMessage_FailureSwallowed(p) ==
    /\ pc[p] = "persist"
    /\ \E writeOk \in BOOLEAN, clock \in now..MaxNow :
         /\ now' = clock
         /\ IF writeOk
            THEN /\ store' = PutItem(store, Item(msg[p], clock))
                 /\ customWrites' =
                      customWrites + (IF req[p].platform = "custom" THEN 1 ELSE 0)
                 /\ Did(p, {"write_try", "write"} \cup
                           (IF BotEligible(req[p].body, chatRooms, bots)
                            THEN {"eligible_at_write"} ELSE {}))
            ELSE /\ UNCHANGED << store, customWrites >>
                 /\ Did(p, {"write_try"})
    /\ Goto(p, "post")
    /\ UNCHANGED << sqs, replies, call, req, rid, msg, blobs, queue, chatRooms, bots, served >>

\* Faulty variant of step 5: after a failed write the handler tries again.
SaveMessage_RetryOnFailure(p) ==
    /\ pc[p] = "persist"
    /\ \E writeOk \in BOOLEAN, clock \in now..MaxNow :
         /\ now' = clock
         /\ IF writeOk
            THEN /\ store' = PutItem(store, Item(msg[p], clock))
                 /\ customWrites' =
                      customWrites + (IF req[p].platform = "custom" THEN 1 ELSE 0)
                 /\ Did(p, {"write_try", "write"} \cup
                           (IF BotEligible(req[p].body, chatRooms, bots)
                            THEN {"eligible_at_write"} ELSE {}))
                 /\ Goto(p, "post")
            ELSE /\ UNCHANGED << store, customWrites >>
                 /\ Did(p, {"write_try"})
                 /\ IF "write_try" \in did[p]
                    THEN Return(p, create_error_response(500, "Internal Server Error"))
                    ELSE Goto(p, "persist")
    /\ UNCHANGED << sqs, replies, call, req, rid, msg, blobs, queue, chatRooms, bots, served >>

\* Faulty variant of step 5: the exception of a failed write leaves the handler;
\* the invocation ends without a response.
SaveMessage_FailurePropagates(p) ==
    /\ pc[p] = "persist"
    /\ \E writeOk \in BOOLEAN, clock \in now..MaxNow :
         /\ now' = clock
         /\ IF writeOk
            THEN /\ store' = PutItem(store, Item(msg[p], clock))
                 /\ customWrites' =
                      customWrites + (IF req[p].platform = "custom" THEN 1 ELSE 0)
                 /\ Did(p, {"write_try", "write"} \cup
                           (IF BotEligible(req[p].body, chatRooms, bots)
                            THEN {"eligible_at_write"} ELSE {}))
                 /\ Goto(p, "post")
            ELSE /\ UNCHANGED << store, customWrites >>
                 /\ Did(p, {"write_try"})
                 /\ Goto(p, "raised")
    /\ UNCHANGED << sqs, replies, call, req, rid, msg, blobs, queue, chatRooms, bots, served >>

\* Step 5: persistence.  writeOk: put_item succeeds; clock: the reading of the
\* wall clock the ttl is computed from.
SaveMessage(p) ==
    /\ pc[p] = "persist"
    /\ \E writeOk \in BOOLEAN, clock \in now..MaxNow :
         /\ now' = clock
         /\ IF writeOk
            THEN /\ store' = PutItem(store, Item(msg[p], clock))
                 /\ customWrites' =
                      customWrites + (IF req[p].platform = "custom" THEN 1 ELSE 0)
                 /\ Did(p, {"write_try", "write"} \cup
                           (IF BotEligible(req[p].body, chatRooms, bots)
                            THEN {"eligible_at_write"} ELSE {}))
                 /\ Goto(p, "post")
            ELSE /\ UNCHANGED << store, customWrites >>
                 /\ Did(p, {"write_try"})
                 /\ Return(p, create_error_response(500, "Internal Server Error"))
    /\ UNCHANGED << sqs, replies, call, req, rid, msg, blobs, queue, chatRooms, bots, served >>

\* Faulty variant of step 6: a failure inside post-processing reaches the
\* handler's except clause, which answers 500.
PostProcess_FailurePropagates(p) ==
    /\ pc[p] = "post"
    /\ \E outcome \in PostOutcomes :
         /\ IF IsCustomClass(req[p])
               /\ SendAttempted(msg[p], req[p].body, chatRooms, bots, outcome)
            THEN IF outcome = "ok"
                 THEN /\ queue' = queue \cup {Job(msg[p], req[p].body, chatRooms, rid[p])}
                      /\ Did(p, {"post", "send_try", "enqueue"})
                 ELSE /\ UNCHANGED queue
                      /\ Did(p, {"post", "send_try"})
            ELSE /\ UNCHANGED queue
                 /\ Did(p, IF req[p].impl = "class" THEN {"post"} ELSE {})
         /\ IF IsCustomClass(req[p]) /\ outcome # "ok"
            THEN Return(p, create_error_response(500, "Internal Server Error"))
            ELSE Return(p, create_platform_success_response(msg[p]))
    /\ UNCHANGED << sqs, replies, call, req, rid, msg, store, blobs, chatRooms, bots, now, served,
                    customWrites >>

\* Step 6 and 7: post-processing and the success response.
PostProcess(p) ==
    /\ pc[p] = "post"
    /\ \E outcome \in PostOutcomes :
         IF IsCustomClass(req[p])
            /\ SendAttempted(msg[p], req[p].body, chatRooms, bots, outcome)
         THEN IF outcome = "ok"
              THEN /\ queue' = queue \cup {Job(msg[p], req[p].body, chatRooms, rid[p])}
                   /\ Did(p, {"post", "send_try", "enqueue"})
              ELSE /\ UNCHANGED queue
                   /\ Did(p, {"post", "send_try"})
         ELSE /\ UNCHANGED queue
              /\ Did(p, IF req[p].impl = "class" THEN {"post"} ELSE {})
    /\ Return(p, create_platform_success_response(msg[p]))
    /\ UNCHANGED << sqs, replies, call, req, rid, msg, store, blobs, chatRooms, bots, now, served,
                    customWrites >>

\* The chat-room table changes (chat_handler's create / update / delete).
PutChatRoom(c) ==
    /\ \E s \in RoomStates \ {chatRooms[c]} : chatRooms' = [chatRooms EXCEPT ![c] = s]
    /\ UNCHANGED << sqs, replies, call, pc, req, rid, msg, resp, did, store, blobs, queue, bots, now,
                    served, customWrites >>

\* The bot-settings table changes (bot_settings_handler's create / update / delete).
PutBot(b) ==
    /\ \E s \in BotStates \ {bots[b]} : bots' = [bots EXCEPT ![b] = s]
    /\ UNCHANGED << sqs, replies, call, pc, req, rid, msg, resp, did, store, blobs, queue, chatRooms, now,
                    served, customWrites >>

\* The steps of the invocations.
Pipeline ==
    \/ \E p \in Procs : VerifySignature(p)
    \/ \E p \in Procs : PreProcess(p)
    \/ \E p \in Procs : NormalizeMessage(p)
    \/ \E p \in Procs : ProcessBinaryData(p)
    \/ \E p \in Procs : SaveMessage(p)
    \/ \E p \in Procs : PostProcess(p)

\* The steps of the environment.
Environment ==
    \/ \E c \in ChatIds : PutChatRoom(c)
    \/ \E b \in BotIds : PutBot(b)

\* Every platform and both handler families; requests are served one at a time,
\* the tables stay as they are.
Next ==
    \/ served < MaxRequests /\ Receive(1, Requests)
    \/ Route(1)
    \/ Pipeline

Spec == Init /\ [][Next]_vars

\* The steps of invocation p.
HandlerStep(p) ==
    \/ Route(p)
    \/ VerifySignature(p)
    \/ PreProcess(p)
    \/ NormalizeMessage(p)
    \/ ProcessBinaryData(p)
    \/ SaveMessage(p)
    \/ PostProcess(p)

\* Every platform and both handler families, one request.
LiveNext ==
    \/ pc[1] = "idle" /\ Receive(1, Requests)
    \/ Route(1)
    \/ Pipeline

\* An invocation runs on: a handler that has a step to take takes it (every
\* call of a step returns or raises).
LiveSpec == Init /\ [][LiveNext]_vars /\ \A p \in Procs : WF_vars(HandlerStep(p))

\* The tables of AuthSpec and StoreSpec: every chat room active with a bot that
\* has AI processing enabled.
AuthInit ==
    /\ Init
    /\ chatRooms = [c \in ChatIds |-> [found |-> TRUE, isActive |-> "true", botId |-> "b1"]]
    /\ bots = [b \in BotIds |-> [found |-> TRUE, isActive |-> "true", aiConfig |-> TRUE]]

\* Every platform and both handler families under every header case.
AuthNext ==
    \/ /\ served < MaxRequests
       /\ Receive(1, UNION { AuthRequestsOf(pl, PlatformMessage(pl, "hi"))
                               \cup AuthRequestsOf(pl, NonObjectBody) : pl \in Platforms })
    \/ Route(1)
    \/ Pipeline

AuthSpec == AuthInit /\ [][AuthNext]_vars

\* The canonical messages handed to storage.save_message in StoreSpec: with
\* and without text, with and without a blob reference, in two partitions.
StoreMessages ==
    UNION { { m, [m EXCEPT !.content_type = "image", !.s3_uri = ObjectKey(m, "jpg")] } :
            m \in { UnifiedMessage(rk[1], rk, "u1", ts, t, "text") :
                      rk \in {<<"custom", "r1">>, <<"slack", "T1", "R1">>},
                      ts \in {MaxTs}, t \in {"hi", Absent} } }

\* A caller hands message m to storage.save_message.
CallSaveMessage(p, m) ==
    /\ pc[p] \in {"idle", "post", "done"}
    /\ served < MaxSaves
    /\ served' = served + 1
    /\ rid' = [rid EXCEPT ![p] = served + 1]
    /\ req' = [req EXCEPT ![p] = NoRequest]
    /\ msg' = [msg EXCEPT ![p] = m]
    /\ resp' = [resp EXCEPT ![p] = NoResponse]
    /\ did' = [did EXCEPT ![p] = {}]
    /\ pc' = [pc EXCEPT ![p] = "persist"]
    /\ UNCHANGED << sqs, replies, call, store, blobs, queue, chatRooms, bots, now, customWrites >>

\* storage.save_message called by the invocations, MaxSaves times in all.
StoreNext ==
    \/ \E p \in Procs, m \in StoreMessages : CallSaveMessage(p, m)
    \/ \E p \in Procs : SaveMessage(p)

StoreSpec == AuthInit /\ [][StoreNext]_vars

\* The line handlers under payloads of several events, one request after the
\* other.
LineNext ==
    \/ /\ served < MaxRequests
       /\ Receive(1, { Request("line", im, Unsigned, b, "dumps") :
                         im \in Impls, b \in LinePayloads })
    \/ Route(1)
    \/ Pipeline

LineSpec == AuthInit /\ [][LineNext]_vars

\* The timestamp parser is called with timestamp; clock is the reading of the
\* wall clock it takes.
ParseTimestamp(timestamp) ==
    /\ \E clock \in now..MaxNow :
         /\ now' = clock
         /\ call' = [fn |-> "_parse_timestamp_to_ms", arg |-> timestamp,
                     result |-> parse_timestamp_to_ms(timestamp, clock)]
    /\ UNCHANGED << sqs, replies, pc, req, rid, msg, resp, did, store, blobs, queue, chatRooms,
                    bots, served, customWrites >>

\* The slack normalizer converts the ts of a message event.
SlackTimestamp(ts) ==
    /\ \E clock \in now..MaxNow :
         /\ now' = clock
         /\ call' = [fn |-> "slack_ts", arg |-> ts, result |-> slack_ts_to_ms(ts, clock)]
    /\ UNCHANGED << sqs, replies, pc, req, rid, msg, resp, did, store, blobs, queue, chatRooms,
                    bots, served, customWrites >>

\* The timestamp conversions called on their own, again and again.
ParseNext ==
    \/ \E timestamp \in ParseInputs : ParseTimestamp(timestamp)
    \/ \E ts \in SlackTsInputs : SlackTimestamp(ts)

ParseSpec == AuthInit /\ [][ParseNext]_vars

\* _classify_task is called with the normalized message.
ClassifyTask(message) ==
    /\ call = NoCall
    /\ call' = [fn |-> "_classify_task", arg |-> [message |-> message],
                result |-> classify_task(message)]
    /\ UNCHANGED << sqs, replies, pc, req, rid, msg, resp, did, store, blobs, queue, chatRooms,
                    bots, now, served, customWrites >>

\* _assess_complexity is called with the normalized message.
AssessComplexity(message) ==
    /\ call = NoCall
    /\ call' = [fn |-> "_assess_complexity", arg |-> [message |-> message],
                result |-> assess_complexity(message)]
    /\ UNCHANGED << sqs, replies, pc, req, rid, msg, resp, did, store, blobs, queue, chatRooms,
                    bots, now, served, customWrites >>

\* _determine_model is called.
DetermineModel(task_type, complexity, task_model_mapping, default_model) ==
    /\ call = NoCall
    /\ call' = [fn |-> "_determine_model",
                arg |-> [task_type |-> task_type, complexity |-> complexity,
                         task_model_mapping |-> task_model_mapping,
                         default_model |-> default_model],
                result |-> determine_model(task_type, complexity,
                                           task_model_mapping, default_model)]
    /\ UNCHANGED << sqs, replies, pc, req, rid, msg, resp, did, store, blobs, queue, chatRooms,
                    bots, now, served, customWrites >>

\* select_model is called with the user message of a job and the bot's aiConfig.
SelectModel(user_message, ai_config) ==
    /\ call = NoCall
    /\ call' = [fn |-> "select_model",
                arg |-> [user_message |-> user_message, ai_config |-> ai_config],
                result |-> select_model(user_message, ai_config)]
    /\ UNCHANGED << sqs, replies, pc, req, rid, msg, resp, did, store, blobs, queue, chatRooms,
                    bots, now, served, customWrites >>

\* storage.process_binary_data called on its own.  uploadOk: put_object succeeds.
\* The result is the message returned and the arguments of the put_object that
\* succeeded (NoPut when none did).
ProcessBinary(message, binary_data, file_extension) ==
    /\ call = NoCall
    /\ \E uploadOk \in BOOLEAN :
         LET saved == save_binary_to_s3(message, file_extension)
             uploaded == ~Falsy(binary_data) /\ binary_data # "b64bad" /\ uploadOk
         IN /\ blobs' = IF uploaded THEN blobs \cup {ObjectKey(message, file_extension)}
                         ELSE blobs
            /\ call' = [ fn |-> "process_binary_data",
                         arg |-> [ message |-> message, binary_data |-> binary_data,
                                   file_extension |-> file_extension ],
                         result |-> IF uploaded
                                    THEN [ message |-> [message EXCEPT !.s3_uri = saved.s3_uri],
                                           put |-> saved.put ]
                                    ELSE [ message |-> message, put |-> NoPut ] ]
    /\ UNCHANGED << sqs, replies, pc, req, rid, msg, resp, did, store, queue, chatRooms, bots, now,
                    served, customWrites >>

\* The attachment step called on its own.
\* binary_data: none, empty, base64 text, text that is no base64
UploadNext ==
    \E message \in UploadMessages,
       binary_data \in { Absent, "", "b64ok", "b64bad" },
       file_extension \in { Absent, "", "jpg", "png", "pdf", "JPG", "dat" } :
        ProcessBinary(message, binary_data, file_extension)

UploadSpec == AuthInit /\ [][UploadNext]_vars

\* The model selector and its three parts, each called on its own.
SelectNext ==
    \/ \E message \in SelectMessages : ClassifyTask(Strip(Lower(message)))
    \/ \E message \in SelectMessages : AssessComplexity(Strip(Lower(message)))
    \/ \E t \in {"technical", "creative", "analysis", "general"},
          c \in {"high", "medium", "low"},
          m \in TaskModelMappings, d \in ModelIds : DetermineModel(t, c, m, d)
    \/ \E message \in SelectMessages, ai_config \in AiConfigs :
          SelectModel(message, ai_config)

SelectSpec == AuthInit /\ [][SelectNext]_vars

(* ------------------------ the two handler families --------------------- *)

\* The same request on its way to handle_webhook_request.
FlatOf(r) == [r EXCEPT !.impl = "flat", !.platform = "none"]

\* One request is handed to both families: invocation 1 runs the class-based
\* handler, invocation 2 handle_webhook_request.
ReceiveBoth(r) ==
    /\ pc[1] = "idle" /\ pc[2] = "idle"
    /\ served < MaxRequests
    /\ req' = [req EXCEPT ![1] = r, ![2] = FlatOf(r)]
    /\ served' = served + 1
    /\ rid' = [rid EXCEPT ![1] = served + 1, ![2] = served + 1]
    /\ pc' = [pc EXCEPT ![1] = "verify", ![2] = "route"]
    /\ UNCHANGED << sqs, replies, call, msg, resp, did, store, blobs, queue, chatRooms,
                    bots, now, customWrites >>

\* Both families serve the same request side by side.
EquivNext ==
    \/ \E r \in { q \in Requests : q.impl = "class"
                                     /\ q.platform \in {"slack", "line", "teams"} } :
          ReceiveBoth(r)
    \/ Route(2)
    \/ Pipeline

EquivSpec == AuthInit /\ [][EquivNext]_vars

(* --------------------------- queue consumer ---------------------------- *)

\* A message body that carries none of the fields of a job.
NoJob ==
    [ chatId |-> Absent, botId |-> Absent, userMessage |-> Absent, userMessageId |-> 0,
      source |-> Absent, platform |-> Absent, userId |-> Absent, roomKey |-> << >> ]

\* One record of an SQS event.  json: record['body'] is the JSON text of an
\* object; body: that object.
SqsRecord(job) == [json |-> TRUE, body |-> job]

\* Records that are no job of the webhook handler: a body that is no JSON, a job
\* without a user message, a job without a chat id, a job for a bot that the
\* bot table does not hold.
DefectiveRecords ==
    LET job == [NoJob EXCEPT !.chatId = "c1", !.botId = "b1", !.userMessage = "hi",
                             !.userMessageId = 1]
    IN { [json |-> FALSE, body |-> NoJob],
         SqsRecord([job EXCEPT !.userMessage = ""]),
         SqsRecord([job EXCEPT !.chatId = Absent]),
         SqsRecord([job EXCEPT !.botId = "b2"]) }

\* What happens to the calls _process_sqs_message makes for a record.
RecordOutcomes == {"ok", "bot_lookup_raises", "select_raises", "inference_fails",
                   "inference_raises", "save_raises"}

\* Faulty variant: the reply is saved whatever the inference call returned.
process_sqs_message_SavesOnFailure(record, table, outcome) ==
    LET b == record.body
    IN IF ~record.json THEN [success |-> FALSE, steps |-> {}]
       ELSE IF Falsy(b.chatId) \/ Falsy(b.botId) \/ Falsy(b.userMessage)
       THEN [success |-> FALSE, steps |-> {}]
       ELSE IF outcome = "bot_lookup_raises" \/ ~get_bot_settings(table, b.botId).found
       THEN [success |-> FALSE, steps |-> {"bot_lookup"}]
       ELSE IF outcome = "select_raises"
       THEN [success |-> FALSE, steps |-> {"bot_lookup", "select"}]
       ELSE IF outcome \in {"inference_fails", "inference_raises"}
       THEN [success |-> TRUE, steps |-> {"bot_lookup", "select", "invoke", "save_try", "save"}]
       ELSE IF outcome = "save_raises"
       THEN [success |-> FALSE,
             steps |-> {"bot_lookup", "select", "invoke", "invoke_ok", "save_try"}]
       ELSE [success |-> TRUE,
             steps |-> {"bot_lookup", "select", "invoke", "invoke_ok", "save_try", "save"}]

\* lambda_function._process_sqs_message: whether the result says success, and
\* the steps taken for the record:
\*   bot_lookup : get_bot_settings was called
\*   select     : select_model was called
\*   invoke     : _call_bedrock_api was called;  invoke_ok: it returned success
\*   save_try   : _save_ai_response was called;  save: its write succeeded
\* Every exception is caught inside and turned into a result without success.
process_sqs_message(record, table, outcome) ==
    LET b == record.body
    IN IF ~record.json THEN [success |-> FALSE, steps |-> {}]
       ELSE IF Falsy(b.chatId) \/ Falsy(b.botId) \/ Falsy(b.userMessage)
       THEN [success |-> FALSE, steps |-> {}]
       ELSE IF outcome = "bot_lookup_raises" \/ ~get_bot_settings(table, b.botId).found
       THEN [success |-> FALSE, steps |-> {"bot_lookup"}]
       ELSE IF outcome = "select_raises"
       THEN [success |-> FALSE, steps |-> {"bot_lookup", "select"}]
       ELSE IF outcome \in {"inference_fails", "inference_raises"}
       THEN [success |-> FALSE, steps |-> {"bot_lookup", "select", "invoke"}]
       ELSE IF outcome = "save_raises"
       THEN [success |-> FALSE,
             steps |-> {"bot_lookup", "select", "invoke", "invoke_ok", "save_try"}]
       ELSE [success |-> TRUE,
             steps |-> {"bot_lookup", "select", "invoke", "invoke_ok", "save_try", "save"}]

\* lambda_function._save_ai_response: the arguments of save_ai_response_message,
\* the row of the assistant's reply.  room_key is f"custom:{chat_id}".
save_ai_response(job) ==
    [ room_key |-> << "custom", job.chatId >>, role |-> "assistant", content |-> "reply",
      userMessageId |-> job.userMessageId ]

\* storage.save_ai_response_message: the reply is appended to the rows of
\* the assistant.
save_ai_response_message(rows, row) == Append(rows, row)

\* The batches delivered to the consumer: up to MaxRecords records, each a job
\* out of the queue or a defective record.  The queue delivers at least once, so
\* a job may be in a batch twice.
Batches(q) ==
    UNION { [1..n -> {SqsRecord(j) : j \in q} \cup DefectiveRecords] : n \in 0..MaxRecords }

\* Faulty variant: the first record that fails ends the loop.
ProcessSqsMessage_StopAtFailure ==
    /\ sqs.pc = "loop"
    /\ Len(sqs.done) < Len(sqs.records)
    /\ \E outcome \in RecordOutcomes :
         LET record == sqs.records[Len(sqs.done) + 1]
             result == process_sqs_message(record, bots, outcome)
         IN /\ sqs' = IF result.success
                      THEN [sqs EXCEPT !.done = Append(@, result),
                                       !.processedCount = @ + 1]
                      ELSE [sqs EXCEPT !.done = Append(@, result),
                                       !.errorCount = @ + 1,
                                       !.pc = "done", !.statusCode = 200]
            /\ replies' = IF "save" \in result.steps
                          THEN save_ai_response_message(replies, save_ai_response(record.body))
                          ELSE replies
    /\ UNCHANGED << pc, req, rid, msg, resp, did, store, blobs, queue, chatRooms, bots,
                    now, served, customWrites, call >>

\* lambda_function._handle_sqs_event, the set-up: the services are constructed.
\* initOk: no constructor raises; if one does, the answer is 500 and no record
\* is looked at.  One invocation of the consumer is followed.
HandleSqsEvent(records) ==
    /\ sqs.pc = "idle"
    /\ \E initOk \in BOOLEAN :
         sqs' = IF initOk THEN [NoSqsEvent EXCEPT !.pc = "loop", !.records = records]
                ELSE [NoSqsEvent EXCEPT !.pc = "done", !.records = records,
                                        !.statusCode = 500]
    /\ UNCHANGED << pc, req, rid, msg, resp, did, store, blobs, queue, chatRooms, bots,
                    now, served, customWrites, call, replies >>

\* One turn of the loop of _handle_sqs_event: the next record goes through
\* _process_sqs_message and is counted.
ProcessSqsMessage ==
    /\ sqs.pc = "loop"
    /\ Len(sqs.done) < Len(sqs.records)
    /\ \E outcome \in RecordOutcomes :
         LET record == sqs.records[Len(sqs.done) + 1]
             result == process_sqs_message(record, bots, outcome)
         IN /\ sqs' = IF result.success
                      THEN [sqs EXCEPT !.done = Append(@, result),
                                       !.processedCount = @ + 1]
                      ELSE [sqs EXCEPT !.done = Append(@, result),
                                       !.errorCount = @ + 1]
            /\ replies' = IF "save" \in result.steps
                          THEN save_ai_response_message(replies, save_ai_response(record.body))
                          ELSE replies
    /\ UNCHANGED << pc, req, rid, msg, resp, did, store, blobs, queue, chatRooms, bots,
                    now, served, customWrites, call >>

\* The loop is over: _handle_sqs_event returns the counts with status 200.
ReturnSqsResult ==
    /\ sqs.pc = "loop"
    /\ Len(sqs.done) = Len(sqs.records)
    /\ sqs' = [sqs EXCEPT !.pc = "done", !.statusCode = 200]
    /\ UNCHANGED << pc, req, rid, msg, resp, did, store, blobs, queue, chatRooms, bots,
                    now, served, customWrites, call, replies >>

\* The custom-UI handler serving one post (with a chat id, a room id or both)
\* and the queue consumer, side by side; the tables stay as they are.
AiNext ==
    \/ /\ pc[1] = "idle"
       /\ Receive(1, { Request("custom", "class", Unsigned, b, "dumps") :
                         b \in { c \in CustomMessages : c.binaryData = Absent } })
    \/ Pipeline
    \/ \E records \in Batches(queue) : HandleSqsEvent(records)
    \/ ProcessSqsMessage
    \/ ReturnSqsResult

AiSpec == AuthInit /\ [][AiNext]_vars

\* The custom-UI handler while chat rooms and bots are created, changed and
\* deleted; requests are served one at a time.
DispatchNext ==
    \/ served < MaxRequests /\ Receive(1, {r \in Requests : IsCustomClass(r)})
    \/ Pipeline
    \/ Environment

DispatchSpec == Init /\ [][DispatchNext]_vars

\* Concurrent invocations of the custom-UI handler, one request each, while the
\* tables stay as they are.
ConcNext ==
    \/ \E p \in Procs :
          /\ pc[p] = "idle"
          /\ Receive(p, { Request("custom", "class", Unsigned,
                                  [BodyDefaults EXCEPT !.chatId = "c1", !.senderId = "u1",
                                                       !.text = t, !.timestamp = ts,
                                                       !.binaryData = bin],
                                  "dumps") :
                            t \in {"hi", "yo"}, ts \in 0..MaxTs, bin \in {Absent, "b64ok"} })
    \/ Pipeline

ConcSpec == Init /\ [][ConcNext]_vars

(* ----------------------------- properties ------------------------------ *)

\* C1: when the signature check of a request fails, the response is 401 and
\* the request is over: the pre-check, the normalizer, the upload, the write
\* and the enqueue are not performed for it.
C1_BadSignatureIsTerminal ==
    \A p \in Procs :
        ("verify" \in did[p] /\ ~VerifySignatureOf(req[p])) =>
            /\ pc[p] = "done"
            /\ resp[p].statusCode = 401
            /\ did[p] = {"verify"}
            /\ msg[p] = None
            /\ \A j \in queue : j.userMessageId # rid[p]

\* a request with a secret configured and a wrong signature has been answered
C1_Witness ==
    \E p \in Procs :
        /\ pc[p] = "done"
        /\ req[p].sig.secret # "" /\ req[p].sig.hdr = "junk"
        /\ resp[p].statusCode = 401

\* C2: when the message-store write fails, the response is 500, post-processing
\* is not executed and no AI job is enqueued for the request.
C2_WriteFailureIs500 ==
    \A p \in Procs :
        ("write_try" \in did[p] /\ "write" \notin did[p]) =>
            /\ pc[p] = "done"
            /\ resp[p].statusCode = 500
            /\ did[p] \cap {"post", "send_try", "enqueue"} = {}
            /\ \A j \in queue : j.userMessageId # rid[p]

\* the write of a custom-UI message failed while its chat names a bot with AI
\* processing enabled
C2_Witness ==
    \E p \in Procs :
        /\ pc[p] = "done"
        /\ IsCustomClass(req[p])
        /\ "write_try" \in did[p] /\ "write" \notin did[p]
        /\ BotEligible(req[p].body, chatRooms, bots)
        /\ resp[p].statusCode = 500

\* C3: a custom-UI request whose write succeeded is answered 200 "success"
\* with the room key and timestamp of its message, whatever the lookups, the
\* queue client and the send do in post-processing; and the post-processing
\* step leaves the message table as it is.
C3_PostProcessKeepsSuccess ==
    /\ [](\A p \in Procs :
            (req[p].platform = "custom" /\ "write" \in did[p] /\ pc[p] = "done") =>
                /\ resp[p].statusCode = 200
                /\ resp[p].status = "success"
                /\ resp[p].roomKey = msg[p].room_key
                /\ resp[p].messageTs = msg[p].ts)
    /\ [][\A p \in Procs :
            (pc[p] = "post" /\ pc'[p] # "post") =>
                /\ store' = store
                /\ pc'[p] = "done"
                /\ resp'[p].statusCode = 200]_vars

\* the send of an AI job failed and the request was still answered 200, its row
\* in the table
C3_Witness ==
    \E p \in Procs :
        /\ pc[p] = "done"
        /\ IsCustomClass(req[p])
        /\ {"write", "send_try"} \subseteq did[p] /\ "enqueue" \notin did[p]
        /\ resp[p].statusCode = 200 /\ resp[p].status = "success"
        /\ \E row \in store : row.PK = msg[p].room_key /\ row.SK = msg[p].ts

\* C4: in BaseWebhookHandler.handle, for each of the four platforms, an event
\* whose normalizer returns no message is answered 200 "ignored"; nothing is
\* uploaded, written or enqueued for it.
C4_NoMessageIsIgnored ==
    \A p \in Procs :
        (req[p].impl = "class" /\ "normalize" \in did[p] /\ msg[p] = None) =>
            /\ pc[p] = "done"
            /\ resp[p].statusCode = 200
            /\ resp[p].status = "ignored"
            /\ did[p] \cap {"upload_try", "upload", "decode_failed", "write_try",
                            "write", "post", "send_try", "enqueue"} = {}
            /\ \A j \in queue : j.userMessageId # rid[p]

\* a class-based handler has normalized an event that is no message
C4_Witness ==
    \E p \in Procs :
        /\ req[p].impl = "class"
        /\ req[p].body.bodyObj
        /\ "normalize" \in did[p] /\ msg[p] = None
        /\ resp[p].status = "ignored"

\* C5: for a custom-UI request with inline binary data, a decode or upload
\* failure raises nothing and leaves the message as it was, with no blob
\* reference: the request goes on to the write, and once written it is answered
\* 200.  The row written carries a blob reference exactly when the upload
\* succeeded.
C5_AttachFailureIsNotFatal ==
    /\ [][\A p \in Procs :
            (/\ pc[p] = "attach" /\ pc'[p] # "attach"
             /\ req[p].platform = "custom"
             /\ ~Falsy(req[p].body.binaryData)) =>
                /\ pc'[p] = "persist"
                /\ resp'[p] = NoResponse
                /\ (req[p].body.binaryData = "b64bad" => "upload" \notin did'[p])
                /\ ("upload" \notin did'[p] =>
                        /\ msg'[p] = msg[p]
                        /\ msg'[p].s3_uri = NoUri
                        /\ blobs' = blobs)
                /\ ("upload" \in did'[p] =>
                        /\ msg'[p].s3_uri # NoUri
                        /\ msg'[p].s3_uri \in blobs')]_vars
    /\ [][\A p \in Procs :
            (/\ req[p].platform = "custom"
             /\ "write" \notin did[p] /\ "write" \in did'[p]) =>
                \E row \in store' :
                    /\ row.PK = msg[p].room_key /\ row.SK = msg[p].ts
                    /\ (row.s3Uri # NoUri) <=> ("upload" \in did[p])]_vars
    /\ [](\A p \in Procs :
            (/\ req[p].platform = "custom"
             /\ ~Falsy(req[p].body.binaryData)
             /\ "write" \in did[p] /\ pc[p] = "done") =>
                resp[p].statusCode = 200)

\* an upload failed, the message was written without a blob reference and the
\* request answered 200
C5_Witness ==
    \E p \in Procs :
        /\ pc[p] = "done"
        /\ req[p].platform = "custom"
        /\ "upload_try" \in did[p] /\ "upload" \notin did[p]
        /\ "write" \in did[p]
        /\ resp[p].statusCode = 200
        /\ \E row \in store :
              row.PK = msg[p].room_key /\ row.SK = msg[p].ts /\ row.s3Uri = NoUri

\* C6: a custom-UI post that reaches the pre-check of CustomWebhookHandler with
\* a chatId, and whose chat-room lookup answers, is answered 404 when the chat
\* room does not exist and 403 when it exists and is inactive.  The response is
\* the pre-check's: the normalizer has not run, no blob is uploaded, no row
\* written and no AI job enqueued for the request.
C6_MissingOrInactiveChatRoom ==
    /\ [][\A p \in Procs :
            (/\ pc[p] = "pre" /\ pc'[p] # "pre"
             /\ IsCustomClass(req[p])
             /\ req[p].body.bodyObj
             /\ ~Falsy(req[p].body.chatId)
             /\ resp'[p].error # "Failed to verify chat room") =>
                LET exists == /\ req[p].body.chatId \in DOMAIN chatRooms
                              /\ chatRooms[req[p].body.chatId].found
                    inactive == /\ exists
                                /\ chatRooms[req[p].body.chatId].isActive = "false"
                IN /\ ~exists => (pc'[p] = "done" /\ resp'[p].statusCode = 404)
                   /\ inactive => (pc'[p] = "done" /\ resp'[p].statusCode = 403)]_vars
    /\ [](\A p \in Procs :
            (IsCustomClass(req[p]) /\ resp[p].statusCode \in {403, 404}) =>
                /\ pc[p] = "done"
                /\ did[p] = {"verify", "pre"}
                /\ msg[p] = None
                /\ \A j \in queue : j.userMessageId # rid[p])

\* a post to an inactive chat room has been answered 403 by the pre-check
C6_Witness ==
    \E p \in Procs :
        /\ pc[p] = "done"
        /\ IsCustomClass(req[p])
        /\ req[p].body.chatId = "c1"
        /\ resp[p].statusCode = 403
        /\ resp[p].error = "Chat room inactive"

\* C7: an AI job is enqueued for a custom-UI request only if, at the
\* post-processing step, the message role is user, its text is non-empty, the
\* body carries a chatId whose chat room exists and names a botId, and that bot
\* exists, is active and has an aiConfig.  In every other case the queue stays
\* as it is.
C7_EnqueueOnlyIfEligible ==
    [][\A j \in queue' \ queue :
          \E p \in Procs :
              /\ pc[p] = "post"
              /\ j.userMessageId = rid[p]
              /\ IsCustomClass(req[p])
              /\ msg[p].role = "user"
              /\ ~Falsy(msg[p].text)
              /\ ~Falsy(req[p].body.chatId)
              /\ req[p].body.chatId \in DOMAIN chatRooms
              /\ LET room == chatRooms[req[p].body.chatId]
                 IN /\ room.found
                    /\ ~Falsy(room.botId)
                    /\ room.botId = j.botId
                    /\ room.botId \in DOMAIN bots
                    /\ bots[room.botId].found
                    /\ bots[room.botId].isActive = "true"
                    /\ bots[room.botId].aiConfig]_vars

\* a job has been enqueued for a request
C7_Witness ==
    \E p \in Procs :
        /\ pc[p] = "done"
        /\ "enqueue" \in did[p]
        /\ \E j \in queue : j.userMessageId = rid[p] /\ j.chatId = req[p].body.chatId

\* C8 as stated: every custom-UI user message persisted while its chat room
\* names an active bot with an aiConfig gets an AI job.  A request answered
\* 2xx is not redelivered, so for such a request the job has to be on the
\* queue when the request is over.
C8_AtLeastOnceHandoff ==
    \A p \in Procs :
        (/\ IsCustomClass(req[p])
         /\ pc[p] = "done"
         /\ {"write", "eligible_at_write"} \subseteq did[p]
         /\ resp[p].statusCode = 200) =>
            \E j \in queue : j.userMessageId = rid[p]

\* C8 amended: the handoff is attempted once, by the request that persisted
\* the message, and is best-effort.  Once the write succeeded the request is
\* answered 200; the queue then holds one job for the message if the send was
\* made and succeeded, and none otherwise; and no job for the message is
\* enqueued after the response.
C8_HandoffIsBestEffort ==
    /\ [](\A p \in Procs :
            (IsCustomClass(req[p]) /\ pc[p] = "done" /\ "write" \in did[p]) =>
                /\ resp[p].statusCode = 200
                /\ Cardinality({j \in queue : j.userMessageId = rid[p]})
                     = (IF "enqueue" \in did[p] THEN 1 ELSE 0)
                /\ ("enqueue" \in did[p] => "send_try" \in did[p]))
    /\ [][\A p \in Procs :
            (pc[p] = "done" /\ rid'[p] = rid[p]) =>
                {j \in queue' : j.userMessageId = rid[p]}
                  = {j \in queue : j.userMessageId = rid[p]}]_vars

\* the send failed for a persisted message whose bot was eligible: answered 200,
\* no job
C8_Witness ==
    \E p \in Procs :
        /\ pc[p] = "done"
        /\ IsCustomClass(req[p])
        /\ {"write", "eligible_at_write", "send_try"} \subseteq did[p]
        /\ "enqueue" \notin did[p]
        /\ resp[p].statusCode = 200
        /\ \A j \in queue : j.userMessageId # rid[p]

\* C9: a job is enqueued only by a request whose write has succeeded: at the
\* step that puts the job on the queue the message table holds, in the
\* partition named by the job's roomKey, the row with the timestamp of the
\* request's message; and the jobs never outnumber the successful custom-UI
\* writes.
C9_EnqueueAfterWrite ==
    /\ [][\A j \in queue' \ queue :
            \E p \in Procs :
                /\ pc[p] = "post"
                /\ j.userMessageId = rid[p]
                /\ "write" \in did[p]
                /\ j.roomKey = msg[p].room_key
                /\ \E row \in store :
                      /\ row.PK = j.roomKey
                      /\ row.SK = msg[p].ts
                      /\ row.role = "user"]_vars
    /\ [](Cardinality(queue) <= customWrites)

\* two requests have each written their message and enqueued their job
C9_Witness ==
    /\ Cardinality(queue) = 2
    /\ \A p \in Procs : pc[p] = "done" /\ {"write", "enqueue"} \subseteq did[p]

\* C10: a slack request that reaches the challenge test with a payload of type
\* url_verification is answered 200 with the payload's challenge value ("" when
\* the payload has none); the normalizer is not invoked and nothing is written
\* to the message table, the bucket or the queue.
C10_ChallengeEchoed ==
    \A p \in Procs :
        (/\ req[p].platform = "slack"
         /\ req[p].body.bodyObj
         /\ req[p].body.kind = "url_verification"
         /\ "pre" \in did[p]) =>
            /\ pc[p] = "done"
            /\ resp[p].statusCode = 200
            /\ resp[p].challenge =
                  (IF req[p].body.challenge = Absent THEN "" ELSE req[p].body.challenge)
            /\ did[p] = {"verify", "pre"}
            /\ msg[p] = None
            /\ \A j \in queue : j.userMessageId # rid[p]

\* a signed challenge has been echoed
C10_Witness ==
    \E p \in Procs :
        /\ pc[p] = "done"
        /\ req[p].platform = "slack"
        /\ req[p].sig.secret # ""
        /\ req[p].sig.hdr =
              SignatureOf("slack", req[p].sig.secret, req[p].sig.tsHdr, req[p].raw)
        /\ req[p].body.kind = "url_verification"
        /\ resp[p].statusCode = 200 /\ resp[p].challenge = "ch1"

\* C11: a request to a platform for which no secret is configured passes the
\* signature check whatever its body and headers are: the verification step
\* hands it to the pre-check without a response, and it is never answered 401.
\* This holds for the four platforms, class-based and flat.
C11_NoSecretNoCheck ==
    /\ [][\A p \in Procs :
            (pc[p] = "verify" /\ pc'[p] # "verify" /\ req[p].sig.secret = "") =>
                /\ pc'[p] = "pre"
                /\ resp'[p] = NoResponse]_vars
    /\ [](\A p \in Procs : req[p].sig.secret = "" => resp[p].statusCode # 401)

\* without a secret, a request whose signature header is no signature has been
\* verified and its message written
C11_Witness ==
    \E p \in Procs :
        /\ pc[p] = "done"
        /\ req[p].sig.secret = "" /\ req[p].sig.hdr = "junk"
        /\ req[p].platform = "line"
        /\ {"verify", "write"} \subseteq did[p]
        /\ resp[p].statusCode = 200

\* C12: on the platforms that check a MAC (slack, line, custom), a request whose
\* signature header is the correct MAC of its raw body, as received, passes the
\* check whatever the layout of the raw body: it is not answered 401.
C12_MacOverRawBody ==
    \A p \in Procs :
        (/\ "verify" \in did[p]
         /\ req[p].platform \in {"slack", "line", "custom"}
         /\ req[p].sig.secret # ""
         /\ req[p].sig.tsHdr # "" \/ req[p].platform # "slack"
         /\ req[p].sig.hdr = SignatureOf(req[p].platform, req[p].sig.secret,
                                         req[p].sig.tsHdr, req[p].raw)) =>
            resp[p].statusCode # 401

\* C13: with a slack secret configured, a request passes the signature check
\* exactly when both headers are there and the signature header is "v0=" and
\* the hex HMAC-SHA256, under the secret, of "v0:" + timestamp header + ":" +
\* raw body.  Every other request (another body, timestamp, key or signature,
\* or a header missing) is answered 401 by the verification step.
C13_SlackSignature ==
    \A p \in Procs :
        (/\ req[p].platform = "slack"
         /\ req[p].sig.secret # ""
         /\ "verify" \in did[p]) =>
            LET expected == "v0=" \o hmac_sha256(req[p].sig.secret,
                               "v0:" \o req[p].sig.tsHdr \o ":" \o req[p].raw)
                accepted == /\ req[p].sig.tsHdr # ""
                            /\ req[p].sig.hdr # ""
                            /\ req[p].sig.hdr = expected
            IN IF accepted THEN resp[p].statusCode # 401
               ELSE /\ pc[p] = "done"
                    /\ resp[p].statusCode = 401
                    /\ did[p] = {"verify"}

\* a slack message signed over a raw body that is not in the layout of
\* json.dumps has been accepted and written
C13_Witness ==
    \E p \in Procs :
        /\ pc[p] = "done"
        /\ req[p].platform = "slack"
        /\ req[p].sig.secret = "s1"
        /\ req[p].sig.hdr = SignatureOf("slack", "s1", req[p].sig.tsHdr, req[p].raw)
        /\ req[p].raw # json_dumps(req[p].body)
        /\ "write" \in did[p]
        /\ resp[p].statusCode = 200

\* C14: with a teams secret configured, a request passes the check exactly when
\* its authorization header starts with "Bearer ": the token after the prefix
\* and the value of the secret play no part.  A request without the header or
\* with another prefix is answered 401 by the verification step.
C14_TeamsBearerPresence ==
    \A p \in Procs :
        (/\ req[p].platform = "teams"
         /\ req[p].sig.secret # ""
         /\ "verify" \in did[p]) =>
            LET h == req[p].sig.hdr
            IN IF Len(h) >= 7 /\ SubSeq(h, 1, 7) = "Bearer "
               THEN resp[p].statusCode # 401
               ELSE /\ pc[p] = "done"
                    /\ resp[p].statusCode = 401
                    /\ did[p] = {"verify"}

\* a teams message with a token that is not the secret has been accepted and
\* written
C14_Witness ==
    \E p \in Procs :
        /\ pc[p] = "done"
        /\ req[p].platform = "teams"
        /\ req[p].sig.secret = "s2"
        /\ req[p].sig.hdr = "Bearer tok1"
        /\ "write" \in did[p]
        /\ resp[p].statusCode = 200

\* C15: handle_webhook_request answers a request whose method is not POST with
\* 405 whatever its path, and a POST to a path that is none of the four webhook
\* paths with 404; in both cases no platform handler runs and the message table,
\* the bucket and the queue stay as they are.  A POST to one of the four paths
\* is handed to the handler of that path's platform and to no other.
C15_MethodAndPathDispatch ==
    /\ [][\A p \in Procs :
            (pc[p] = "route" /\ pc'[p] # "route") =>
                LET fixed == {"/webhook/custom", "/webhook/line", "/webhook/slack",
                              "/webhook/teams"}
                    turnedAway(code) ==
                        /\ pc'[p] = "done"
                        /\ resp'[p].statusCode = code
                        /\ req'[p].platform = "none"
                        /\ did'[p] = {}
                        /\ << store, blobs, queue >>' = << store, blobs, queue >>
                IN IF req[p].method # "POST" THEN turnedAway(405)
                   ELSE IF req[p].path \notin fixed THEN turnedAway(404)
                   ELSE /\ pc'[p] = "verify"
                        /\ resp'[p] = NoResponse
                        /\ req[p].path = "/webhook/" \o req'[p].platform]_vars
    /\ [](\A p \in Procs :
            (req[p].impl = "flat" /\ did[p] # {}) =>
                /\ req[p].method = "POST"
                /\ req[p].path = "/webhook/" \o req[p].platform)
    /\ [](\A p \in Procs :
            (req[p].impl = "flat" /\ resp[p].statusCode \in {404, 405}) =>
                /\ pc[p] = "done"
                /\ did[p] = {}
                /\ msg[p] = None)

\* a GET on the custom-UI webhook path, with a complete message as its body,
\* has been answered 405 and nothing was written
C15_Witness ==
    \E p \in Procs :
        /\ pc[p] = "done"
        /\ req[p].method = "GET" /\ req[p].path = "/webhook/custom"
        /\ resp[p].statusCode = 405
        /\ did[p] = {}
        /\ store = {}

\* C16: a POST to /webhook/custom served through handle_webhook_request whose
\* payload has no non-empty room id (roomId or chatId), sender id (senderId or
\* userId) or text is answered 400, and no row is written for it.
C16_FlatCustomRequiredFields ==
    \A p \in Procs :
        (/\ req[p].impl = "flat" /\ req[p].platform = "custom"
         /\ req[p].body.bodyObj
         /\ \/ Falsy(OrElse(req[p].body.roomId, req[p].body.chatId))
            \/ Falsy(OrElse(req[p].body.senderId, req[p].body.userId))
            \/ Falsy(req[p].body.text)
         /\ pc[p] = "done") =>
            /\ resp[p].statusCode = 400
            /\ "write" \notin did[p]

\* C17: a webhook POST whose body is no JSON object (an unparsable text, an
\* empty body, a list) is answered 400 on every platform, never 500, and
\* nothing is uploaded, written or enqueued for it.
C17_MalformedBodyIs400 ==
    \A p \in Procs :
        (/\ ~req[p].body.bodyObj
         /\ req[p].platform \in Platforms
         /\ pc[p] = "done") =>
            /\ resp[p].statusCode = 400
            /\ did[p] \cap {"upload", "write", "enqueue"} = {}

\* what the claims call the content of a row
Content(row) == << row.role, row.text, row.contentType, row.s3Uri >>

\* C18: after any sequence of save_message calls the table holds at most one
\* row per (PK, SK).  A successful save leaves exactly the row of its message
\* under the message's key, with the role, text, contentType and blob reference
\* of the message, and every row under another key as it was; so saving a
\* message whose row is already there leaves that row's content as it is.
C18_SaveIsIdempotentInKey ==
    /\ [](\A r1, r2 \in store : (r1.PK = r2.PK /\ r1.SK = r2.SK) => r1 = r2)
    /\ [][\A p \in Procs :
            ("write" \notin did[p] /\ "write" \in did'[p]) =>
                LET m == msg[p]
                    atKey(table) == {row \in table : row.PK = m.room_key /\ row.SK = m.ts}
                IN /\ Cardinality(atKey(store')) = 1
                   /\ \A row \in atKey(store') :
                         Content(row) = << m.role, IF Falsy(m.text) THEN Absent ELSE m.text,
                                           m.content_type, m.s3_uri >>
                   /\ store' \ atKey(store') = store \ atKey(store)
                   /\ \A old \in atKey(store) :
                         Content(old) = << m.role, IF Falsy(m.text) THEN Absent ELSE m.text,
                                           m.content_type, m.s3_uri >>
                           => {Content(row) : row \in atKey(store')} = {Content(old)}]_vars

\* the same message, with a blob reference, has been saved twice and the table
\* holds one row
C18_Witness ==
    /\ msg[1] = msg[2]
    /\ msg[1].s3_uri # NoUri
    /\ \A p \in {1, 2} : pc[p] = "post" /\ "write" \in did[p]
    /\ Cardinality(store) = 1
    /\ \E row \in store : row.PK = msg[1].room_key /\ row.SK = msg[1].ts

\* the content save_message writes for message m
ContentOf(m) ==
    << m.role, IF Falsy(m.text) THEN Absent ELSE m.text, m.content_type, m.s3_uri >>

\* p and q serve the same event, stamped by its sender, and both have written
SameEventWritten(p, q) ==
    /\ p # q
    /\ req[p] = req[q]
    /\ req[p].body.timestamp # 0
    /\ "write" \in did[p] /\ "write" \in did[q]

\* C19 as stated: when two concurrent requests submit the same externally
\* timestamped event and both have written, the table holds exactly one row for
\* the event, and its role, text, contentType and blob reference are those
\* either request writes: the same whichever wrote last.
C19_SameContentWhoeverWritesLast ==
    \A p, q \in Procs :
        SameEventWritten(p, q) =>
            LET rows == {row \in store : row.PK = msg[p].room_key
                                         /\ row.SK = req[p].body.timestamp}
            IN /\ Cardinality(rows) = 1
               /\ \A row \in rows : /\ Content(row) = ContentOf(msg[p])
                                     /\ Content(row) = ContentOf(msg[q])

\* C19 amended: when two concurrent requests submit the same externally
\* timestamped event and both have written, the partition holds exactly one
\* row, under the event's timestamp, whose role, text and contentType are the
\* same whichever request wrote last.  Its blob reference is the last writer's:
\* the object key when that request's upload succeeded, none when it failed;
\* so the content is the same whichever wrote last when the two uploads had
\* the same outcome.
C19_DuplicateCollapsesToLastWrite ==
    /\ [](\A p, q \in Procs :
            SameEventWritten(p, q) =>
                LET rows == {row \in store : row.PK = msg[p].room_key}
                IN /\ Cardinality(rows) = 1
                   /\ \A row \in rows :
                         /\ row.SK = req[p].body.timestamp
                         /\ << row.role, row.text, row.contentType >>
                              = << msg[p].role, msg[p].text, msg[p].content_type >>
                         /\ << row.role, row.text, row.contentType >>
                              = << msg[q].role, msg[q].text, msg[q].content_type >>
                         /\ row.s3Uri \in {msg[p].s3_uri, msg[q].s3_uri}
                         /\ (("upload" \in did[p]) <=> ("upload" \in did[q])) =>
                               /\ Content(row) = ContentOf(msg[p])
                               /\ Content(row) = ContentOf(msg[q]))
    /\ [][\A p \in Procs :
            ("write" \notin did[p] /\ "write" \in did'[p]) =>
                \A row \in store' :
                    (row.PK = msg[p].room_key /\ row.SK = msg[p].ts) =>
                        /\ Content(row) = ContentOf(msg[p])
                        /\ (row.s3Uri # NoUri) <=> ("upload" \in did[p])]_vars

\* the same event with an attachment was submitted twice; one upload succeeded,
\* the other failed and its request wrote last: the one row has no blob
\* reference although the blob is in the bucket
C19_Witness ==
    \E p, q \in Procs :
        /\ SameEventWritten(p, q)
        /\ pc[p] = "done" /\ pc[q] = "done"
        /\ "upload" \in did[p]
        /\ "upload_try" \in did[q] /\ "upload" \notin did[q]
        /\ msg[p].s3_uri \in blobs
        /\ Cardinality(store) = 1
        /\ \A row \in store : row.s3Uri = NoUri

\* C20: a row of the message table is immutable: once a row is written under
\* (PK, SK), no step of a later webhook request changes its role, text,
\* contentType or blob reference or removes it; later messages only add rows.
C20_RowsAreImmutable ==
    [][\A row \in store :
          \E kept \in store' :
              /\ kept.PK = row.PK /\ kept.SK = row.SK
              /\ Content(kept) = Content(row)]_vars

\* the first event of the line payload p serves
FirstEvent(p) == req[p].body.events[1]

\* C21: two line message events with the same source kind and the same group
\* id (or the same room id) normalize to the same roomKey, whatever the
\* sender's userId is and whether or not a userId is present.
C21_RoomKeyIgnoresSender ==
    \A p \in Procs :
        (/\ req[p].platform = "line"
         /\ "normalize" \in did[p]
         /\ msg[p] # None
         /\ FirstEvent(p).source.type \in {"group", "room"}) =>
            \A b \in LinePayloads :
                (/\ b.events # <<>>
                 /\ b.events[1].type = "message"
                 /\ b.events[1].source.type = FirstEvent(p).source.type
                 /\ b.events[1].source.groupId = FirstEvent(p).source.groupId
                 /\ b.events[1].source.roomId = FirstEvent(p).source.roomId) =>
                    LineNormalizer_normalize(b, now).room_key = msg[p].room_key

\* C22: the line normalizer's result depends only on the first event of the
\* list: when the first event is no message the result is none (the request
\* is ignored and nothing is written) even when later events are messages;
\* when it is a message the result is the one for the payload of that event
\* alone, whatever follows it.  A request persists at most one row.
C22_OnlyFirstEventCounts ==
    /\ [](\A p \in Procs :
            (req[p].platform = "line" /\ req[p].body.bodyObj
             /\ "normalize" \in did[p] /\ req[p].body.events # <<>>) =>
                IF FirstEvent(p).type # "message"
                THEN /\ msg[p] = None
                     /\ pc[p] = "done"
                     /\ resp[p] = create_ignored_response
                     /\ "write_try" \notin did[p]
                ELSE /\ msg[p] # None
                     /\ msg[p] = LineNormalizer_normalize(
                                    LineBody(<< FirstEvent(p) >>), msg[p].ts))
    /\ [](Cardinality(store) <= served)
    /\ [][/\ Cardinality(store') <= Cardinality(store) + 1
          /\ store' # store =>
                \E p \in Procs : "write" \notin did[p] /\ "write" \in did'[p]]_vars

\* a payload of two messages from different conversations has been served:
\* one row, in the partition of the first event
C22_Witness ==
    \E p \in Procs :
        /\ pc[p] = "done"
        /\ req[p].platform = "line"
        /\ Len(req[p].body.events) = 2
        /\ FirstEvent(p).type = "message" /\ req[p].body.events[2].type = "message"
        /\ FirstEvent(p).source # req[p].body.events[2].source
        /\ resp[p].status = "success"
        /\ Cardinality(store) = 1
        /\ \A row \in store : row.PK = <<"line", "group", "G1">>
                                /\ row.text = FirstEvent(p).message.text

\* C23: for every integer timestamp n >= 0, and for the decimal string of
\* every such n, the parser returns n * 1000 when n has at most 10 digits and
\* n itself when it has more; an absent timestamp gives the wall-clock time,
\* and no integer does.
C23_SecondsOrMillis ==
    call.fn = "_parse_timestamp_to_ms" =>
        /\ (/\ call.arg.type \in {"int", "str"}
            /\ AllDigits(call.arg.val)
            /\ IntOfDigits(call.arg.val) = call.arg.val) =>
               call.result = IF Len(call.arg.val) <= 10 THEN Times1000(call.arg.val)
                             ELSE call.arg.val
        /\ call.arg = NullTs => call.result = ToString(now)

\* C24: every response returned on a webhook path, the responses of the
\* platform pre-checks included, has a statusCode, the headers Content-Type
\* and Access-Control-Allow-Origin and a JSON body; every error response body
\* has the fields error, message and timestamp.
C24_ResponseEnvelope ==
    \A p \in Procs :
        pc[p] = "done" =>
            /\ resp[p].statusCode # 0
            /\ {"Content-Type", "Access-Control-Allow-Origin"} \subseteq resp[p].headers
            /\ resp[p].bodyKeys # {}
            /\ resp[p].statusCode >= 400 =>
                   {"error", "message", "timestamp"} \subseteq resp[p].bodyKeys

\* C25: in one webhook request the message-store write, the blob upload and
\* the queue send are each attempted at most once, whether they succeed or
\* fail: the step that attempts one of them is taken only by a request that
\* has not attempted it yet, and the table, the bucket and the queue change
\* only in such a step.
C25_NoRetryInsideARequest ==
    [][/\ \A p \in Procs :
            (pc'[p] # pc[p] \/ did'[p] # did[p] \/ resp'[p] # resp[p]) =>
               /\ pc[p] = "persist" => "write_try" \notin did[p]
               /\ pc[p] = "attach" => did[p] \cap {"upload_try", "decode_failed"} = {}
               /\ pc[p] = "post" => "send_try" \notin did[p]
               /\ \A try \in {"write_try", "upload_try", "send_try"} :
                     (try \in did[p] /\ pc[p] # "done") => try \in did'[p]
       /\ store' # store =>
            \E p \in Procs : pc[p] = "persist" /\ "write_try" \notin did[p]
                              /\ "write" \in did'[p]
       /\ blobs' # blobs =>
            \E p \in Procs : pc[p] = "attach" /\ "upload_try" \notin did[p]
                              /\ "upload" \in did'[p]
       /\ queue' # queue =>
            \E p \in Procs : pc[p] = "post" /\ "send_try" \notin did[p]
                              /\ "enqueue" \in did'[p]]_vars

\* a request whose upload failed, whose write succeeded and whose queue send
\* failed has been answered: each was attempted, none repeated
C25_Witness ==
    \E p \in Procs :
        /\ pc[p] = "done"
        /\ {"upload_try", "write_try", "write", "send_try"} \subseteq did[p]
        /\ did[p] \cap {"upload", "enqueue"} = {}
        /\ resp[p].status = "success"
        /\ blobs = {} /\ queue = {} /\ Cardinality(store) = 1

\* C26: task classification equals the reference scoring: per task type a
\* keyword scores 2 when it equals a whole word of the lower-cased text and 1
\* when it is only a substring of some word; the result is the task type with
\* the strictly highest score, and general when all scores are zero or the
\* highest score is shared.
C26_ClassifyIsReferenceScoring ==
    call.fn = "_classify_task" =>
        LET words == Split(call.arg.message)
            tokens == { words[n] : n \in 1..Len(words) }
            whole(t) == { k \in task_keywords(t) : k \in tokens }
            inside(t) == { k \in task_keywords(t) \ whole(t) :
                             \E w \in tokens : Contains(w, k) }
            score(t) == 2 * Cardinality(whole(t)) + Cardinality(inside(t))
            types == { TaskTypes[n] : n \in 1..4 }
            winners == { t \in types : \A u \in types \ {t} : score(u) < score(t) }
        IN IF winners = {} \/ \A t \in types : score(t) = 0
           THEN call.result = "general"
           ELSE call.result \in winners

\* C27: complexity is the weighted sum of 3 per high-indicator hit, 2 per
\* medium-indicator hit and 1 per low-indicator hit, plus 2 for a text longer
\* than 200 characters or else 1 for one longer than 100; it is high from 4,
\* medium from 2, low below.  A word counts toward one indicator tier only: an
\* indicator that is in two lists is counted in one of them.
C27_ComplexityIsWeightedSum ==
    call.fn = "_assess_complexity" =>
        LET message == call.arg.message
            found(level) == { k \in complexity_indicators(level) : Contains(message, k) }
            shared == found("medium") \cap found("low")
            len == IF Len(message) > 200 THEN 2 ELSE IF Len(message) > 100 THEN 1 ELSE 0
            level(sum) == IF sum >= 4 THEN "high" ELSE IF sum >= 2 THEN "medium" ELSE "low"
        IN \E asMedium \in SUBSET shared :
              call.result =
                 level(3 * Cardinality(found("high"))
                       + 2 * Cardinality((found("medium") \ shared) \cup asMedium)
                       + Cardinality(found("low") \ asMedium)
                       + len)

\* C28: the selected model is the bot's model for the classified task, or the
\* bot's default model when the task has no mapping, changed in exactly two
\* cases: complexity high and a fast-tier base model give the capable tier of
\* the same family; complexity low, task general and a capable-tier base model
\* give the fast tier of the same family.  For every other task, complexity
\* and base model the selected model is the base model; the selection is a
\* function of the text and the configuration.
C28_TwoAdjustmentsOnly ==
    LET fast(id) == Contains(id, "haiku")
        capable(id) == Contains(id, "sonnet")
        family(id) == Replace(Replace(id, "haiku", "<tier>"), "sonnet", "<tier>")
        selected(task, complexity, base, result) ==
            IF complexity = "high" /\ fast(base)
            THEN capable(result) /\ ~fast(result) /\ family(result) = family(base)
            ELSE IF complexity = "low" /\ task = "general" /\ capable(base)
            THEN fast(result) /\ ~capable(result) /\ family(result) = family(base)
            ELSE result = base
        base_of(task, mapping, default) ==
            IF task \in DOMAIN mapping THEN mapping[task] ELSE default
    IN /\ call.fn = "_determine_model" =>
            selected(call.arg.task_type, call.arg.complexity,
                     base_of(call.arg.task_type, call.arg.task_model_mapping,
                             call.arg.default_model),
                     call.result)
       /\ call.fn = "select_model" =>
            LET text == Strip(Lower(call.arg.user_message))
                config == call.arg.ai_config
                task == classify_task(text)
            IN selected(task, assess_complexity(text),
                        base_of(task, config.taskModelMapping,
                                IF config.defaultModel = Absent THEN DefaultModel
                                ELSE config.defaultModel),
                        call.result)

\* a message of high complexity was handed to the selector for a bot without
\* model configuration: the fast default model has become the capable one
C28_Witness ==
    /\ call.fn = "select_model"
    /\ call.arg.ai_config.defaultModel = Absent
    /\ call.arg.ai_config.taskModelMapping = << >>
    /\ assess_complexity(Strip(Lower(call.arg.user_message))) = "high"
    /\ call.result = "anthropic.claude-3-5-sonnet-20241022-v2:0"

\* C29: for a slack ts "S.F", S and F strings of digits, the normalizer gives
\* S * 1000 plus the milliseconds of the fraction, taken from its first three
\* digits: the true millisecond instant, also when F has fewer than three
\* digits (".5" is 500 ms), and so a value in [S*1000, S*1000 + 999]; a ts that
\* is absent or not of this form gives the wall-clock time.
C29_SlackTsIsTrueMillis ==
    call.fn = "slack_ts" =>
        LET parts == IF call.arg.type = "str" THEN SplitDots(call.arg.val) ELSE << >>
            wellFormed == Len(parts) = 2 /\ AllDigits(parts[1]) /\ AllDigits(parts[2])
            millis == LET frac == parts[2] \o "00" IN IntOfDigits(SubSeq(frac, 1, 3))
        IN IF wellFormed
           THEN call.result = Times1000Plus(IntOfDigits(parts[1]), millis)
           ELSE call.result = ToString(now)

\* C30: an uploaded attachment is stored under the key
\* platform/roomKey with ':' replaced by '_'/ts.extension; the extension is the
\* caller's whenever the caller gives one (a non-empty one), and otherwise the
\* default of the message's contentType (jpg for image, mp4 for video, mp3 for
\* audio, bin for everything else); the content type of the upload is the
\* MIME type of that extension; and the URI written onto the message is
\* s3://bucket/ followed by exactly that key.
C30_AttachmentKey ==
    (call.fn = "process_binary_data" /\ call.result.put # NoPut) =>
        LET m == call.arg.message
            given == call.arg.file_extension \notin {Absent, ""}
            fallback == CASE m.content_type = "image" -> "jpg"
                          [] m.content_type = "video" -> "mp4"
                          [] m.content_type = "audio" -> "mp3"
                          [] OTHER -> "bin"
            ext == IF given THEN call.arg.file_extension ELSE fallback
            key == m.platform \o "/" \o Replace(m.room_key, ":", "_") \o "/"
                      \o ToString(m.ts) \o "." \o ext
        IN /\ call.result.put.Key = key
           /\ call.result.put.Bucket = CHAT_ASSETS_BUCKET
           /\ call.result.put.ContentType = _get_content_type(ext)
           /\ call.result.message.s3_uri = "s3://" \o CHAT_ASSETS_BUCKET \o "/" \o key
           /\ call.result.message = [m EXCEPT !.s3_uri = call.result.message.s3_uri]
           /\ ":" \notin { SubSeq(call.result.put.Key, i, i) :
                              i \in 1..Len(call.result.put.Key) }

\* An image with the caller's extension png was uploaded: the key ends in .png
\* and not in the default .jpg.
C30_Witness ==
    /\ call.fn = "process_binary_data"
    /\ call.arg.message.content_type = "image"
    /\ call.arg.file_extension = "png"
    /\ call.result.put # NoPut
    /\ call.result.put.Key = "slack/slack_T123_C456/0.png"
    /\ call.result.put.ContentType = "image/png"
    /\ call.result.message.s3_uri = "s3://chat-assets-prod/slack/slack_T123_C456/0.png"

\* C31: the assistant reply written for an AI job is in the roomKey partition of
\* the user message that triggered the job (the partition the job records as
\* roomKey, under which the user's row was written), for every custom-UI post
\* that passes normalization, also one that carries both a roomId and a chatId.
C31_ReplyInUserPartition ==
    \A i \in 1..Len(replies) : \A j \in queue :
        j.userMessageId = replies[i].userMessageId =>
            /\ replies[i].room_key = j.roomKey
            /\ \A p \in Procs :
                 (rid[p] = j.userMessageId /\ "write" \in did[p]) =>
                     \E row \in store : row.role = "user" /\ row.PK = replies[i].room_key

\* C32: every row written through CustomWebhookHandler belongs to a conversation
\* that passed the pre-check of the same request: the request names a chatId,
\* the pre-check looked that chat room up and let the request pass, and the
\* row's roomKey is custom:<that chatId>.
C32_RowIsOfCheckedRoom ==
    \A p \in Procs :
        (IsCustomClass(req[p]) /\ "write" \in did[p]) =>
            /\ "pre" \in did[p]
            /\ ~Falsy(req[p].body.chatId)
            /\ msg[p].room_key = << "custom", req[p].body.chatId >>

\* C33: once a request has finished, the object it wrote to the blob store is
\* referenced by a row of the message store: a request that uploaded a blob
\* has persisted a row whose blobRef is that blob's URI.
C33_NoOrphanBlob ==
    \A p \in Procs :
        (pc[p] = "done" /\ "upload" \in did[p]) =>
            /\ msg[p].s3_uri \in blobs
            /\ \E row \in store :
                  row.PK = msg[p].room_key /\ row.s3Uri = msg[p].s3_uri

\* C34: with a slack signing secret configured, a url_verification request whose
\* signature is missing or wrong is answered 401 by the verification step, the
\* pre-check never runs for it and no response carries its challenge; the
\* challenge is echoed only by the pre-check, after verification has passed.
C34_ChallengeOnlyAfterVerification ==
    /\ [](\A p \in Procs :
            LET r == req[p]
                signed == /\ r.sig.tsHdr # "" /\ r.sig.hdr # ""
                          /\ r.sig.hdr = SignatureOf("slack", r.sig.secret, r.sig.tsHdr, r.raw)
            IN (/\ r.platform = "slack"
                /\ r.body.bodyObj /\ r.body.kind = "url_verification"
                /\ r.sig.secret # ""
                /\ ~signed) =>
                   /\ resp[p].challenge = Absent
                   /\ "pre" \notin did[p]
                   /\ (pc[p] \in {"verify", "done"})
                   /\ (pc[p] = "done" => resp[p].statusCode = 401))
    /\ [][\A p \in Procs :
            (resp'[p].challenge # Absent /\ resp[p].challenge = Absent) =>
                /\ pc[p] = "pre"
                /\ "verify" \in did[p]
                /\ VerifySignatureOf(req[p])]_vars

\* a slack challenge signed with a wrong signature has been answered 401
C34_Witness ==
    \E p \in Procs :
        /\ pc[p] = "done"
        /\ req[p].platform = "slack"
        /\ req[p].body.kind = "url_verification" /\ req[p].body.challenge = "ch1"
        /\ req[p].sig.secret = "s1" /\ req[p].sig.hdr = "junk"
        /\ resp[p].statusCode = 401
        /\ resp[p].challenge = Absent

\* C35: the queue consumer, once its services are set up, takes the records of
\* a batch one by one, each exactly once and in order; a record that fails or
\* raises is counted as an error and the loop goes on with the next record;
\* the result is returned when every record has been taken, and in it
\* processedCount + errorCount is the number of records of the batch.
C35_EveryRecordOnce ==
    /\ [](sqs.statusCode # 500 =>
            /\ Len(sqs.done) <= Len(sqs.records)
            /\ sqs.processedCount + sqs.errorCount = Len(sqs.done)
            /\ sqs.processedCount =
                 Cardinality({ i \in 1..Len(sqs.done) : sqs.done[i].success })
            /\ Len(replies) = sqs.processedCount)
    /\ []((sqs.pc = "done" /\ sqs.statusCode = 200) =>
            /\ Len(sqs.done) = Len(sqs.records)
            /\ sqs.processedCount + sqs.errorCount = Len(sqs.records))
    /\ [][(sqs.pc = "loop" /\ sqs' # sqs) =>
            /\ sqs'.records = sqs.records
            /\ \/ /\ Len(sqs.done) < Len(sqs.records)
                  /\ sqs'.pc = "loop"
                  /\ Len(sqs'.done) = Len(sqs.done) + 1
                  /\ SubSeq(sqs'.done, 1, Len(sqs.done)) = sqs.done
               \/ /\ Len(sqs.done) = Len(sqs.records)
                  /\ sqs'.pc = "done" /\ sqs'.statusCode = 200
                  /\ sqs'.done = sqs.done]_vars

\* a batch of two records has been answered: the first record failed, the
\* second was processed
C35_Witness ==
    /\ sqs.pc = "done" /\ sqs.statusCode = 200
    /\ Len(sqs.records) = 2 /\ Len(sqs.done) = 2
    /\ ~sqs.done[1].success /\ sqs.done[2].success
    /\ sqs.processedCount = 1 /\ sqs.errorCount = 1

\* C36: while a job is processed, the assistant reply is written only after the
\* inference call for that job has returned with success: for a record with a
\* missing field, with a bot that is not found, or with a failed inference
\* call nothing is written, and a record counts as processed only if its reply
\* was written.
C36_ReplyOnlyAfterInference ==
    /\ [](\A i \in 1..Len(sqs.done) :
            LET b == sqs.records[i].body
                steps == sqs.done[i].steps
            IN /\ ("save_try" \in steps => {"invoke", "invoke_ok"} \subseteq steps)
               /\ ("save" \in steps => "save_try" \in steps)
               /\ (\/ ~sqs.records[i].json
                   \/ b.chatId \in {Absent, ""} \/ b.botId \in {Absent, ""}
                   \/ b.userMessage \in {Absent, ""}
                   \/ b.botId \notin DOMAIN bots
                   \/ "invoke_ok" \notin steps) => "save_try" \notin steps
               /\ (sqs.done[i].success => "save" \in steps))
    /\ [][replies' # replies =>
            /\ Len(sqs'.done) = Len(sqs.done) + 1
            /\ "invoke_ok" \in sqs'.done[Len(sqs'.done)].steps
            /\ replies' = Append(replies, replies'[Len(replies')])
            /\ replies'[Len(replies')].userMessageId
                 = sqs.records[Len(sqs'.done)].body.userMessageId]_vars

\* the inference call of a job out of the queue failed: the record is counted
\* as an error and no reply has been written
C36_Witness ==
    /\ sqs.pc = "done"
    /\ Len(sqs.done) = 1
    /\ sqs.records[1].body \in queue
    /\ sqs.done[1].steps = {"bot_lookup", "select", "invoke"}
    /\ sqs.errorCount = 1
    /\ replies = << >>

C38_AlwaysOneResponse ==
    /\ \A p \in Procs : (pc[p] \notin {"idle", "done"}) ~> (pc[p] = "done")
    /\ [](\A p \in Procs :
            /\ pc[p] \in {"idle", "route", "verify", "pre", "normalize", "attach",
                           "persist", "post", "done"}
            /\ (pc[p] = "done" =>
                    resp[p].statusCode \in {200, 400, 401, 403, 404, 405, 500})
            /\ (pc[p] # "done" => resp[p] = NoResponse))
    /\ [][\A p \in Procs :
            (pc[p] = "done" /\ rid'[p] = rid[p]) =>
                (pc'[p] = "done" /\ resp'[p] = resp[p])]_vars

\* a request whose write raised has been answered 500
C38_Witness ==
    \E p \in Procs :
        /\ pc[p] = "done"
        /\ "write_try" \in did[p] /\ "write" \notin did[p]
        /\ resp[p].statusCode = 500
        /\ resp[p].error = "Internal Server Error"
====
